---- MODULE Spec2Model ----
(***************************************************************************)
(* asyncmy: the connection pool (class Pool, asyncmy/cursors.pyx 555-764)  *)
(* together with the parts of Connection (asyncmy/connection.pyx) that the *)
(* pool reads or calls: close, ensure_closed, connected, last_usage,       *)
(* cursor, get_transaction_status, _execute_command / read of a response.  *)
(*                                                                         *)
(* The pool runs on one asyncio event loop: every action below is the code *)
(* a task runs between two suspension points (an await that really         *)
(* suspends: connect(), ensure_closed(), Condition.wait(), a contended     *)
(* lock acquire, reading a response).                                      *)
(*                                                                         *)
(* A second part models one Connection on its own: framing and sequence    *)
(* ids (write_packet, read_packet, _execute_command), the result reader    *)
(* (MySQLResult), connect, close, ensure_closed and ping.                  *)
(***************************************************************************)
EXTENDS Integers, Sequences, FiniteSets, TLC

\* ------------------------------------------------------------------ bounds
NumTasks == 2      \* tasks that call pool operations
MaxConns == 2      \* sessions connect() creates in one run
MaxTime == 1      \* ticks of loop.time()
MaxSize == 2      \* largest maxsize a pool is built with
MaxWakeups == 2    \* _wakeup() tasks that may be pending at once

Tasks == 1..NumTasks
ConnIds == 1..MaxConns

\* pool_recycle values a pool is built with: disabled (negative), or recycle
\* whatever was idle for more than 0 ticks
RecycleValues == {-1, 0}

VARIABLES
    \* Pool.__init__ arguments
    minsize, maxsize, recycle,
    \* Pool fields
    free,        \* _free: deque(maxlen=maxsize), leftmost first
    used,        \* _used
    terminated,  \* _terminated
    acquiring,   \* _acquiring
    closing,     \* _closing
    closed,      \* _closed
    \* asyncio.Condition _cond: its lock, its waiters, and spawned _wakeup tasks
    lock,        \* task holding the lock, 0 when free
    waiters,     \* FIFO of tasks suspended in _cond.wait(), not yet notified
    wakeups,     \* _wakeup() tasks created by release() that have not run yet
    \* tasks
    pc,          \* where each task is suspended
    op,          \* the pool operation the task is in / has just finished
    conn,        \* the task's local variable conn (0: none)
    result,      \* outcome of the finished operation
    \* sessions
    nextId,      \* id the next successful connect() gets
    reader,      \* "open", "eof" (at_eof() or exception()), "none" (_reader is None)
    connected,   \* Connection._connected
    inTrans,     \* server_status & SERVER_STATUS_IN_TRANS
    lastUsage,   \* Connection._last_usage
    inflight,    \* a command was written and its response is not read yet
    now,         \* loop.time()
    \* history, per acquire call
    staleSeen,   \* sessions that were over-age in free at a sweep of this call
    seenAt       \* nextId when the first of them was seen (0: none seen)

cfgVars == <<minsize, maxsize, recycle>>
poolVars == <<free, used, terminated, acquiring, closing, closed>>
syncVars == <<lock, waiters, wakeups>>
taskVars == <<pc, op, conn, result>>
connVars == <<nextId, reader, connected, inTrans, lastUsage, inflight>>
histVars == <<staleSeen, seenAt>>

\* one Connection, seen from the task that owns it
VARIABLES
    s_connected,  \* _connected
    s_writer,     \* _reader/_writer: "none" (None), "open", "lost" (peer gone)
    next_seq_id,  \* _next_seq_id
    wire,         \* frames the last command handed to the transport
    inbox,        \* frames the server sent that are not read yet
    garbled,      \* the unread bytes no longer start at a frame header
    s_result,     \* _result: present, unbuffered_active, has_next
    s_pc,         \* where the owning task is
    s_call,       \* the call the task is in / has just finished
    s_err,        \* exception the finished call raised ("none": returned)
    opened,       \* transports opened so far
    sent,         \* commands written so far
    staleAtSend,  \* frames of earlier responses unread when the last command was written
    resultAtSend, \* what _result was when _execute_command was called last
    cmd,          \* the last command: opcode and body length
    packet,       \* payload of the last packet read_packet returned
    local_infile, \* _local_infile
    s_ret,        \* what the finished call returned
    ssl_context,  \* an ssl context was given to the constructor
    unix_socket,  \* a unix socket path was given to the constructor
    secure,       \* _secure
    server_status,\* server_status: the flags that are set
    auth_packet   \* the packet _request_authentication returned

\* the codec of length-encoded integers and the packet predicates
VARIABLES
    c_pc,         \* "in", "encoded", "decoded"; "packet", "classified"
    c_in,         \* the integer to encode, or the packet to classify
    c_bytes,      \* what _lenenc_int returned
    c_out         \* the outcome of the last step

sessVars == <<s_connected, s_writer, next_seq_id, wire, inbox, garbled, s_result,
              s_pc, s_call, s_err, opened, sent, staleAtSend, resultAtSend, cmd, packet,
              local_infile, s_ret, ssl_context, unix_socket, secure, server_status,
              auth_packet, c_pc, c_in, c_bytes, c_out>>

\* what a call leaves behind besides the fields of the Connection
callVars == <<local_infile, s_ret, ssl_context, unix_socket, secure, server_status,
              auth_packet>>

vars == <<cfgVars, poolVars, syncVars, taskVars, connVars, now, histVars, sessVars>>

\* ----------------------------------------------------------------- helpers
\* MySQLResult.__init__ flags; present = FALSE stands for _result is None
NoResult ==
    [present |-> FALSE, unbuffered_active |-> FALSE, has_next |-> FALSE,
     connection |-> FALSE, server_status |-> {}]

\* MySQLResult.__init__, the attributes a cursor copies: affected_rows,
\* len(rows), field_count, len(description)
NoTally == [affected_rows |-> 0, rows |-> 0, field_count |-> 0, description |-> 0]

NoCommand == [op |-> "none", len |-> 0]

\* Connection.__init__: _secure = False, server_status = 0
NewLink == secure = FALSE /\ server_status = {} /\ auth_packet = "none"

\* a Connection made for TCP without an ssl context
PlainLink == ssl_context = FALSE /\ unix_socket = FALSE /\ NewLink

\* Connection.__init__: not connected, no transport, no result
NewSession ==
    /\ s_connected = FALSE /\ s_writer = "none"
    /\ next_seq_id = 0 /\ wire = <<>> /\ inbox = <<>> /\ garbled = FALSE
    /\ s_result = NoResult
    /\ s_pc = "idle" /\ s_call = "none" /\ s_err = "none"
    /\ opened = 0 /\ sent = 0 /\ staleAtSend = 0 /\ resultAtSend = NoResult
    /\ cmd = NoCommand /\ packet = <<>>
    /\ local_infile = FALSE /\ s_ret = "none"
    /\ PlainLink

Range(q) == {q[i] : i \in DOMAIN q}

\* Pool.size
Size(q, u, a) == Len(q) + Cardinality(u) + a

size == Size(free, used, acquiring)

\* Pool.freesize
freesize == Len(free)

\* deque.append on a deque(maxlen=maxsize): a full deque drops its leftmost
DequeAppend(q, c) ==
    IF Len(q) < maxsize THEN Append(q, c) ELSE Append(Tail(q), c)

PopLeftKeeps(q) == q

\* deque.popleft: the rest of the deque
PopLeft(q) == Tail(q)

\* deque.pop: the deque without its rightmost
PopRight(q) == SubSeq(q, 1, Len(q) - 1)

\* deque.rotate(): the rightmost moves to the left end
Rotate(q) == <<q[Len(q)]>> \o SubSeq(q, 1, Len(q) - 1)

\* Connection.get_transaction_status
get_transaction_status(c) == inTrans[c]

OverAgeSignSlip(c) == recycle > -1 /\ lastUsage[c] - now > recycle

\* the second test of the sweep: older than pool_recycle
OverAge(c) == recycle > -1 /\ now - lastUsage[c] > recycle

\* the first test of the sweep: conn._reader.at_eof() or conn._reader.exception()
ReaderDead(c) == reader[c] = "eof"

\* fill_free_pool, the sweep loop: n iterations left, cl = sessions closed so
\* far.  conn._reader is None raises AttributeError and ends the sweep.
RECURSIVE Sweep(_, _, _)
Sweep(q, n, cl) ==
    IF n = 0 THEN [q |-> q, closed |-> cl, fault |-> FALSE]
    ELSE LET c == q[Len(q)] IN
         IF reader[c] = "none" THEN [q |-> q, closed |-> cl, fault |-> TRUE]
         ELSE IF ReaderDead(c) THEN Sweep(PopRight(q), n - 1, cl \cup {c})
         ELSE IF OverAge(c)    THEN Sweep(PopRight(q), n - 1, cl \cup {c})
         ELSE Sweep(Rotate(q), n - 1, cl)

\* Condition.notify(): the first waiter is resumed (it still has to take the lock)
NotifyWaiters(w) == IF w = <<>> THEN w ELSE Tail(w)

WokenPc(p) == IF p = "acq_wait" THEN "acq_woken" ELSE "wc_woken"

NotifyPc(w, p) ==
    IF w = <<>> THEN p ELSE [p EXCEPT ![Head(w)] = WokenPc(p[Head(w)])]

\* ------------------------------------------------------------------- Init
\* Pool.__init__: minsize >= 0, maxsize >= minsize, everything empty
Init ==
    /\ maxsize \in 1..MaxSize
    /\ minsize \in 0..maxsize
    /\ recycle \in RecycleValues
    /\ free = <<>> /\ used = {} /\ terminated = {}
    /\ acquiring = 0 /\ closing = FALSE /\ closed = FALSE
    /\ lock = 0 /\ waiters = <<>> /\ wakeups = 0
    /\ pc = [t \in Tasks |-> "idle"]
    /\ op = [t \in Tasks |-> "none"]
    /\ conn = [t \in Tasks |-> 0]
    /\ result = [t \in Tasks |-> "none"]
    /\ nextId = 1
    /\ reader = [c \in ConnIds |-> "none"]
    /\ connected = [c \in ConnIds |-> FALSE]
    /\ inTrans = [c \in ConnIds |-> FALSE]
    /\ lastUsage = [c \in ConnIds |-> 0]
    /\ inflight = [c \in ConnIds |-> FALSE]
    /\ now = 0
    /\ staleSeen = [t \in Tasks |-> {}]
    /\ seenAt = [t \in Tasks |-> 0]
    /\ NewSession /\ c_pc = "off" /\ c_in = 0 /\ c_bytes = <<>> /\ c_out = "none"

\* ------------------------------------------------- Connection operations
\* Connection.close(): the transport is dropped, _reader and _writer become
\* None; _connected is not touched
CloseReader(rd, cs) == [c \in ConnIds |-> IF c \in cs THEN "none" ELSE rd[c]]

\* A session that no collection of the pool and no task refers to any more is
\* garbage: its fields are no longer tracked (they take the value v).
Scrub(f, cs, v) == [c \in ConnIds |-> IF c \in cs THEN v ELSE f[c]]

\* the sessions cs become garbage
ForgetSessions(cs) ==
    /\ connected' = Scrub(connected, cs, FALSE)
    /\ inTrans' = Scrub(inTrans, cs, FALSE)
    /\ inflight' = Scrub(inflight, cs, FALSE)

\* ------------------------------------------------------- fill_free_pool
\* fill_free_pool returns to its caller o with free = q, waiters = w, pc = p.
\* _acquire: pop the leftmost free session into used and return it, or wait
\* on the condition.  _create_pool: leave the `async with pool.cond`.
FillReturn(t, o, q, w, p) ==
    IF o = "acquire"
    THEN IF q # <<>>
         THEN /\ free' = PopLeft(q)
              /\ used' = used \cup {Head(q)}
              /\ conn' = [conn EXCEPT ![t] = Head(q)]
              /\ pc' = [p EXCEPT ![t] = "holding"]
              /\ op' = [op EXCEPT ![t] = "none"]
              /\ waiters' = w
              /\ lock' = 0
              /\ UNCHANGED result
         ELSE /\ free' = q
              /\ waiters' = Append(w, t)
              /\ pc' = [p EXCEPT ![t] = "acq_wait"]
              /\ op' = [op EXCEPT ![t] = o]
              /\ lock' = 0
              /\ UNCHANGED <<used, conn, result>>
    ELSE /\ free' = q
         /\ waiters' = w
         /\ pc' = [p EXCEPT ![t] = "idle"]
         /\ op' = [op EXCEPT ![t] = "none"]
         /\ lock' = 0
         /\ UNCHANGED <<used, conn, result>>

\* the task suspends in `await connect(...)`; Connection.__init__ has run and
\* stamped _last_usage of the session under construction
StartConnect(t, o, nid, lu, q, a, w, p, where) ==
    /\ acquiring' = a + 1
    /\ op' = [op EXCEPT ![t] = o]
    /\ free' = q
    /\ waiters' = w
    /\ pc' = [p EXCEPT ![t] = where]
    /\ lock' = t
    /\ lastUsage' = IF nid \in ConnIds THEN [lu EXCEPT ![nid] = now] ELSE lu
    /\ UNCHANGED <<used, conn, result>>

MayGrowUnchecked(q, a) == TRUE

\* `self.size < self.maxsize`, the test before the extra connect of
\* fill_free_pool(override_min=True)
MayGrow(q, a) == Size(q, used, a) < maxsize

\* fill_free_pool from `while self.size < self.minsize` on, with free = q and
\* _acquiring = a; nid is the id the next session gets, lu the _last_usage
\* of the sessions
FillLoop(t, o, nid, lu, q, a, w, p) ==
    IF Size(q, used, a) < minsize
    THEN StartConnect(t, o, nid, lu, q, a, w, p, "conn_min")
    ELSE IF q # <<>>
    THEN acquiring' = a /\ lastUsage' = lu /\ FillReturn(t, o, q, w, p)
    ELSE IF o = "acquire" /\ MayGrow(q, a)
    THEN StartConnect(t, o, nid, lu, q, a, w, p, "conn_over")
    ELSE acquiring' = a /\ lastUsage' = lu /\ FillReturn(t, o, q, w, p)

\* sessions of free that are older than pool_recycle when a sweep starts
StaleInFree == {c \in Range(free) : recycle >= 0 /\ now - lastUsage[c] > recycle}

\* fill_free_pool from its first line, called by o with the lock just taken
RunFill(t, o) ==
    LET s == Sweep(free, Len(free), {}) IN
    /\ reader' = CloseReader(reader, s.closed)
    /\ ForgetSessions(s.closed)
    /\ staleSeen' = [staleSeen EXCEPT ![t] = @ \cup StaleInFree]
    /\ seenAt' = [seenAt EXCEPT ![t] =
                     IF @ = 0 /\ StaleInFree # {} THEN nextId ELSE @]
    /\ IF s.fault
       THEN /\ free' = s.q
            /\ lock' = 0
            /\ pc' = [pc EXCEPT ![t] = "ret"]
            /\ op' = [op EXCEPT ![t] = o]
            /\ result' = [result EXCEPT ![t] = "AttributeError"]
            /\ lastUsage' = Scrub(lastUsage, s.closed, 0)
            /\ UNCHANGED <<used, acquiring, waiters, conn>>
       ELSE FillLoop(t, o, nextId, Scrub(lastUsage, s.closed, 0), s.q,
                     acquiring, waiters, pc)

\* what RunFill leaves alone
FillFrame ==
    UNCHANGED <<cfgVars, terminated, closing, closed, wakeups, nextId, now>>

\* ---------------------------------------------------------------- acquire
AcquireRefusedWhenClosed == closed

\* `if self._closing: raise RuntimeError(...)` of _acquire
AcquireRefused == closing

\* _acquire up to its first suspension
AcquireStart(t) ==
    /\ pc[t] = "idle"
    /\ IF AcquireRefused
       THEN /\ pc' = [pc EXCEPT ![t] = "ret"]
            /\ op' = [op EXCEPT ![t] = "acquire"]
            /\ result' = [result EXCEPT ![t] = "RuntimeError"]
            /\ UNCHANGED <<cfgVars, poolVars, syncVars, conn, connVars, now, histVars>>
       ELSE IF lock = 0
       THEN RunFill(t, "acquire") /\ FillFrame
       ELSE /\ pc' = [pc EXCEPT ![t] = "acq_lock"]
            /\ op' = [op EXCEPT ![t] = "acquire"]
            /\ UNCHANGED <<cfgVars, poolVars, syncVars, conn, result, connVars, now, histVars>>

\* `async with self._cond` gets the lock after waiting for it
AcquireLock(t) ==
    /\ pc[t] = "acq_lock"
    /\ lock = 0
    /\ RunFill(t, "acquire") /\ FillFrame

\* _cond.wait() returns: the lock is retaken and the loop runs again
AcquireWoken(t) ==
    /\ pc[t] = "acq_woken"
    /\ lock = 0
    /\ RunFill(t, "acquire") /\ FillFrame

\* connect() returns a new session
ConnectDone(t) ==
    /\ pc[t] \in {"conn_min", "conn_over"}
    /\ nextId \in ConnIds
    /\ nextId' = nextId + 1
    /\ reader' = [reader EXCEPT ![nextId] = "open"]
    /\ connected' = [connected EXCEPT ![nextId] = TRUE]
    /\ LET q == DequeAppend(free, nextId)
           w == NotifyWaiters(waiters)
           p == NotifyPc(waiters, pc)
       IN IF pc[t] = "conn_min"
          THEN FillLoop(t, op[t], nextId + 1, lastUsage, q, acquiring - 1, w, p)
          ELSE /\ acquiring' = acquiring - 1
               /\ UNCHANGED lastUsage
               /\ FillReturn(t, op[t], q, w, p)
    /\ UNCHANGED <<cfgVars, terminated, closing, closed, wakeups,
                   inTrans, inflight, now, histVars>>

ConnectFailLeaks(t) ==
    /\ pc[t] \in {"conn_min", "conn_over"}
    /\ acquiring' = acquiring
    /\ lock' = 0
    /\ pc' = [pc EXCEPT ![t] = "ret"]
    /\ result' = [result EXCEPT ![t] = "OperationalError"]
    /\ lastUsage' = Scrub(lastUsage, {nextId} \cap ConnIds, 0)
    /\ UNCHANGED <<cfgVars, free, used, terminated, closing, closed, waiters,
                   wakeups, op, conn, nextId, reader, connected, inTrans,
                   inflight, now, histVars>>

\* connect() raises: finally restores _acquiring, the error leaves the
\* `async with self._cond` and reaches the caller
ConnectFail(t) ==
    /\ pc[t] \in {"conn_min", "conn_over"}
    /\ acquiring' = acquiring - 1
    /\ lock' = 0
    /\ pc' = [pc EXCEPT ![t] = "ret"]
    /\ result' = [result EXCEPT ![t] = "OperationalError"]
    /\ lastUsage' = Scrub(lastUsage, {nextId} \cap ConnIds, 0)
    /\ UNCHANGED <<cfgVars, free, used, terminated, closing, closed, waiters,
                   wakeups, op, conn, nextId, reader, connected, inTrans,
                   inflight, now, histVars>>

\* _create_pool: `async with pool.cond: await pool.fill_free_pool(False)`
FillStart(t) ==
    /\ pc[t] = "idle"
    /\ minsize > 0
    /\ IF lock = 0
       THEN RunFill(t, "fill_free_pool") /\ FillFrame
       ELSE /\ pc' = [pc EXCEPT ![t] = "ffp_lock"]
            /\ op' = [op EXCEPT ![t] = "fill_free_pool"]
            /\ UNCHANGED <<cfgVars, poolVars, syncVars, conn, result, connVars, now, histVars>>

FillLock(t) ==
    /\ pc[t] = "ffp_lock"
    /\ lock = 0
    /\ RunFill(t, "fill_free_pool") /\ FillFrame

\* ---------------------------------------------------------------- release
ReleaseFateNoTransCheck(c) ==
    IF c \in terminated THEN "forget"
    ELSE IF ~connected[c] THEN "drop"
    ELSE IF closing THEN "close_closing"
    ELSE "to_free"

\* the branch release(conn) takes
ReleaseFate(c) ==
    IF c \in terminated THEN "forget"
    ELSE IF ~connected[c] THEN "drop"
    ELSE IF get_transaction_status(c) THEN "close_in_trans"
    ELSE IF closing THEN "close_closing"
    ELSE "to_free"

\* release(conn), called by the task that holds conn; it does not suspend
Release(t) ==
    /\ pc[t] = "holding"
    /\ LET c == conn[t]
           fate == ReleaseFate(c)
       IN /\ c \in terminated \cup used
          /\ fate \in {"close_closing", "to_free"} => wakeups < MaxWakeups
          /\ terminated' = IF fate = "forget" THEN terminated \ {c} ELSE terminated
          /\ used' = IF fate = "forget" THEN used ELSE used \ {c}
          /\ reader' = IF fate \in {"close_in_trans", "close_closing"}
                       THEN CloseReader(reader, {c}) ELSE reader
          /\ free' = IF fate = "to_free" THEN DequeAppend(free, c) ELSE free
          /\ wakeups' = IF fate \in {"close_closing", "to_free"}
                        THEN wakeups + 1 ELSE wakeups
          /\ ForgetSessions(IF fate = "to_free" THEN {} ELSE {c})
          /\ lastUsage' = Scrub(lastUsage, IF fate = "to_free" THEN {} ELSE {c}, 0)
    /\ pc' = [pc EXCEPT ![t] = "idle"]
    /\ conn' = [conn EXCEPT ![t] = 0]
    /\ UNCHANGED <<op, result>>
    /\ staleSeen' = [staleSeen EXCEPT ![t] = {}]
    /\ seenAt' = [seenAt EXCEPT ![t] = 0]
    /\ UNCHANGED <<cfgVars, acquiring, closing, closed, lock, waiters, nextId, now>>

\* a _wakeup() task runs: `async with self._cond: self._cond.notify()`
Wakeup ==
    /\ wakeups > 0
    /\ lock = 0
    /\ wakeups' = wakeups - 1
    /\ waiters' = NotifyWaiters(waiters)
    /\ pc' = NotifyPc(waiters, pc)
    /\ UNCHANGED <<cfgVars, poolVars, lock, op, conn, result, connVars, now, histVars>>

\* ------------------------------------------------------ close / terminate
\* Pool.close()
Close(t) ==
    /\ pc[t] = "idle"
    /\ closing' = IF closed THEN closing ELSE TRUE
    /\ UNCHANGED <<cfgVars, free, used, terminated, acquiring, closed,
                   syncVars, taskVars, connVars, now, histVars>>

TerminateKeepsUsed(t) ==
    /\ pc[t] = "idle"
    /\ closing' = IF closed THEN closing ELSE TRUE
    /\ reader' = CloseReader(reader, used)
    /\ terminated' = terminated \cup used
    /\ UNCHANGED <<cfgVars, free, used, acquiring, closed, syncVars, taskVars,
                   nextId, connected, inTrans, lastUsage, inflight, now, histVars>>

\* Pool.terminate()
Terminate(t) ==
    /\ pc[t] = "idle"
    /\ closing' = IF closed THEN closing ELSE TRUE
    /\ reader' = CloseReader(reader, used)
    /\ terminated' = terminated \cup used
    /\ used' = {}
    /\ UNCHANGED <<cfgVars, free, acquiring, closed, syncVars, taskVars,
                   nextId, connected, inTrans, lastUsage, inflight, now, histVars>>

\* ------------------------------------------------------------ wait_closed
OutstandingIgnoresUsed(q) == Size(q, {}, acquiring) > Len(q)

\* `self.size > self.freesize` of wait_closed, with free = q
Outstanding(q) == Size(q, used, acquiring) > Len(q)

\* wait_closed inside `async with self._cond`, with free = q: wait while a
\* session is outstanding, else mark the pool closed
WaitClosedCheck(t, q) ==
    IF Outstanding(q)
    THEN /\ waiters' = Append(waiters, t)
         /\ pc' = [pc EXCEPT ![t] = "wc_wait"]
         /\ op' = [op EXCEPT ![t] = "wait_closed"]
         /\ lock' = 0
         /\ UNCHANGED closed
    ELSE /\ closed' = TRUE
         /\ pc' = [pc EXCEPT ![t] = "idle"]
         /\ op' = [op EXCEPT ![t] = "none"]
         /\ lock' = 0
         /\ UNCHANGED waiters

\* wait_closed up to its first suspension
WaitClosedStart(t) ==
    /\ pc[t] = "idle"
    /\ IF closed
       THEN UNCHANGED <<free, closed, reader, lock, waiters, pc, op, result,
                        connected, inTrans, inflight, lastUsage>>
       ELSE IF ~closing
       THEN /\ pc' = [pc EXCEPT ![t] = "ret"]
            /\ op' = [op EXCEPT ![t] = "wait_closed"]
            /\ result' = [result EXCEPT ![t] = "RuntimeError"]
            /\ UNCHANGED <<free, closed, reader, lock, waiters,
                           connected, inTrans, inflight, lastUsage>>
       ELSE /\ free' = <<>>
            /\ reader' = CloseReader(reader, Range(free))
            /\ ForgetSessions(Range(free))
            /\ lastUsage' = Scrub(lastUsage, Range(free), 0)
            /\ result' = result
            /\ IF lock = 0
               THEN WaitClosedCheck(t, <<>>)
               ELSE /\ pc' = [pc EXCEPT ![t] = "wc_lock"]
                    /\ op' = [op EXCEPT ![t] = "wait_closed"]
                    /\ UNCHANGED <<closed, lock, waiters>>
    /\ UNCHANGED <<cfgVars, used, terminated, acquiring, closing, wakeups, conn,
                   nextId, now, histVars>>

\* wait_closed gets the lock it waited for, or is resumed from _cond.wait()
WaitClosedResume(t) ==
    /\ pc[t] \in {"wc_lock", "wc_woken"}
    /\ lock = 0
    /\ WaitClosedCheck(t, free)
    /\ UNCHANGED <<cfgVars, free, used, terminated, acquiring, closing, wakeups,
                   conn, result, connVars, now, histVars>>

\* ------------------------------------------------------------------ clear
\* clear() inside `async with self._cond`, with free = q, reader = rd and
\* connected = cn: pop and close the next free session, or notify and leave.
\* ensure_closed on a session whose _writer is None raises AttributeError.
ClearLoop(t, q, rd, cn) ==
    /\ reader' = rd
    /\ connected' = IF q # <<>> /\ rd[Head(q)] = "none"
                    THEN Scrub(cn, {Head(q)}, FALSE) ELSE cn
    /\ inTrans' = IF q # <<>> /\ rd[Head(q)] = "none"
                  THEN Scrub(inTrans, {conn[t], Head(q)}, FALSE)
                  ELSE Scrub(inTrans, {conn[t]}, FALSE)
    /\ inflight' = IF q # <<>> /\ rd[Head(q)] = "none"
                   THEN Scrub(inflight, {conn[t], Head(q)}, FALSE)
                   ELSE Scrub(inflight, {conn[t]}, FALSE)
    /\ lastUsage' = IF q # <<>> /\ rd[Head(q)] = "none"
                    THEN Scrub(lastUsage, {conn[t], Head(q)}, 0)
                    ELSE Scrub(lastUsage, {conn[t]}, 0)
    /\ IF q = <<>>
       THEN /\ free' = q
            /\ waiters' = NotifyWaiters(waiters)
            /\ pc' = [NotifyPc(waiters, pc) EXCEPT ![t] = "idle"]
            /\ op' = [op EXCEPT ![t] = "none"]
            /\ conn' = [conn EXCEPT ![t] = 0]
            /\ lock' = 0
            /\ UNCHANGED result
       ELSE IF rd[Head(q)] = "none"
       THEN /\ free' = PopLeft(q)
            /\ pc' = [pc EXCEPT ![t] = "ret"]
            /\ op' = [op EXCEPT ![t] = "clear"]
            /\ result' = [result EXCEPT ![t] = "AttributeError"]
            /\ conn' = [conn EXCEPT ![t] = 0]
            /\ lock' = 0
            /\ UNCHANGED waiters
       ELSE /\ free' = PopLeft(q)
            /\ pc' = [pc EXCEPT ![t] = "clr_close"]
            /\ op' = [op EXCEPT ![t] = "clear"]
            /\ conn' = [conn EXCEPT ![t] = Head(q)]
            /\ lock' = t
            /\ UNCHANGED <<waiters, result>>

ClearFrame ==
    UNCHANGED <<cfgVars, used, terminated, acquiring, closing, closed, wakeups,
                nextId, now, histVars>>

ClearStart(t) ==
    /\ pc[t] = "idle"
    /\ IF lock = 0
       THEN ClearLoop(t, free, reader, connected)
       ELSE /\ pc' = [pc EXCEPT ![t] = "clr_lock"]
            /\ op' = [op EXCEPT ![t] = "clear"]
            /\ UNCHANGED <<free, reader, connected, inTrans, inflight, lastUsage,
                           waiters, result, conn, lock>>
    /\ ClearFrame

ClearLock(t) ==
    /\ pc[t] = "clr_lock"
    /\ lock = 0
    /\ ClearLoop(t, free, reader, connected)
    /\ ClearFrame

\* `await conn.ensure_closed()` returns: COM_QUIT sent, transport closed,
\* _connected cleared; the loop goes on
ClearClosed(t) ==
    /\ pc[t] = "clr_close"
    /\ ClearLoop(t, free, CloseReader(reader, {conn[t]}),
                 [connected EXCEPT ![conn[t]] = FALSE])
    /\ ClearFrame

\* --------------------------------------- what a task does with its session
HoldFrame ==
    UNCHANGED <<cfgVars, poolVars, syncVars, op, conn, result, nextId, now, histVars>>

\* cursor = conn.cursor(); await cursor.execute(...): cursor() stamps
\* _last_usage, _execute_command writes the command, and the task waits for
\* the response
Execute(t) ==
    /\ pc[t] = "holding"
    /\ connected[conn[t]]
    /\ reader[conn[t]] = "open"
    /\ ~inflight[conn[t]]
    /\ lastUsage' = [lastUsage EXCEPT ![conn[t]] = now]
    /\ inflight' = [inflight EXCEPT ![conn[t]] = TRUE]
    /\ pc' = [pc EXCEPT ![t] = "busy"]
    /\ UNCHANGED <<reader, connected, inTrans>>
    /\ HoldFrame

\* the response is read; server_status takes the flags it carries
ReadResult(t) ==
    /\ pc[t] = "busy"
    /\ \E st \in BOOLEAN : inTrans' = [inTrans EXCEPT ![conn[t]] = st]
    /\ inflight' = [inflight EXCEPT ![conn[t]] = FALSE]
    /\ pc' = [pc EXCEPT ![t] = "holding"]
    /\ UNCHANGED <<reader, connected, lastUsage>>
    /\ HoldFrame

\* the task is cancelled while it waits for the response: CancelledError is
\* raised at the await, nothing of the session changes
Cancel(t) ==
    /\ pc[t] = "busy"
    /\ pc' = [pc EXCEPT ![t] = "holding"]
    /\ UNCHANGED <<reader, connected, inTrans, lastUsage, inflight>>
    /\ HoldFrame

\* the task calls Connection.close() on its session
UserClose(t) ==
    /\ pc[t] = "holding"
    /\ reader[conn[t]] # "none"
    /\ reader' = CloseReader(reader, {conn[t]})
    /\ UNCHANGED <<pc, connected, inTrans, lastUsage, inflight>>
    /\ HoldFrame

\* the task calls Connection.ensure_closed() on its session
UserEnsureClosed(t) ==
    /\ pc[t] = "holding"
    /\ connected[conn[t]]
    /\ reader[conn[t]] # "none"
    /\ reader' = CloseReader(reader, {conn[t]})
    /\ connected' = [connected EXCEPT ![conn[t]] = FALSE]
    /\ UNCHANGED <<pc, inTrans, lastUsage, inflight>>
    /\ HoldFrame

\* the server or the network drops the transport of an idle session
LoseTransport(c) ==
    /\ c \in Range(free)
    /\ reader[c] = "open"
    /\ reader' = [reader EXCEPT ![c] = "eof"]
    /\ UNCHANGED <<pc, connected, inTrans, lastUsage, inflight>>
    /\ HoldFrame
    /\ UNCHANGED sessVars

\* loop.time() advances
Tick ==
    /\ now < MaxTime
    /\ now' = now + 1
    /\ UNCHANGED <<cfgVars, poolVars, syncVars, taskVars, connVars, histVars>>
    /\ UNCHANGED sessVars

\* the caller takes the outcome of the finished operation
Return(t) ==
    /\ pc[t] = "ret"
    /\ pc' = [pc EXCEPT ![t] = "idle"]
    /\ op' = [op EXCEPT ![t] = "none"]
    /\ result' = [result EXCEPT ![t] = "none"]
    /\ staleSeen' = [staleSeen EXCEPT ![t] = {}]
    /\ seenAt' = [seenAt EXCEPT ![t] = 0]
    /\ UNCHANGED <<cfgVars, poolVars, syncVars, conn, connVars, now>>

\* ------------------------------------------------------------------- Next
\* steps the event loop takes by itself once they are possible
LoopStep ==
    \/ \E t \in Tasks : AcquireLock(t) /\ UNCHANGED sessVars
    \/ \E t \in Tasks : AcquireWoken(t) /\ UNCHANGED sessVars
    \/ \E t \in Tasks : ConnectDone(t) /\ UNCHANGED sessVars
    \/ \E t \in Tasks : ConnectFail(t) /\ UNCHANGED sessVars
    \/ \E t \in Tasks : FillLock(t) /\ UNCHANGED sessVars
    \/ \E t \in Tasks : WaitClosedResume(t) /\ UNCHANGED sessVars
    \/ \E t \in Tasks : ClearLock(t) /\ UNCHANGED sessVars
    \/ \E t \in Tasks : ClearClosed(t) /\ UNCHANGED sessVars
    \/ Wakeup /\ UNCHANGED sessVars

\* calls the program makes
CallStep ==
    \/ \E t \in Tasks : AcquireStart(t) /\ UNCHANGED sessVars
    \/ \E t \in Tasks : FillStart(t) /\ UNCHANGED sessVars
    \/ \E t \in Tasks : Release(t) /\ UNCHANGED sessVars
    \/ \E t \in Tasks : Close(t) /\ UNCHANGED sessVars
    \/ \E t \in Tasks : Terminate(t) /\ UNCHANGED sessVars
    \/ \E t \in Tasks : WaitClosedStart(t) /\ UNCHANGED sessVars
    \/ \E t \in Tasks : ClearStart(t) /\ UNCHANGED sessVars
    \/ \E t \in Tasks : Execute(t) /\ UNCHANGED sessVars
    \/ \E t \in Tasks : ReadResult(t) /\ UNCHANGED sessVars
    \/ \E t \in Tasks : Cancel(t) /\ UNCHANGED sessVars
    \/ \E t \in Tasks : UserClose(t) /\ UNCHANGED sessVars
    \/ \E t \in Tasks : UserEnsureClosed(t) /\ UNCHANGED sessVars
    \/ \E t \in Tasks : Return(t) /\ UNCHANGED sessVars

Next ==
    \/ LoopStep
    \/ CallStep
    \/ \E c \in ConnIds : LoseTransport(c)
    \/ Tick

Spec == Init /\ [][Next]_vars

\* the event loop runs every callback that is ready: a step of LoopStep that
\* stays possible is eventually taken
FairSpec == Spec /\ WF_vars(LoopStep)

\* ------------------------------------------------------------ properties
Holding(t) == pc[t] \in {"holding", "busy"}

\* the step in which task t calls release(conn[t])
ReleaseStep(t) == pc[t] = "holding" /\ pc'[t] = "idle"

\* C1: in every reachable state |free| + |used| + acquiring <= maxsize
C1_SizeBound == Len(free) + Cardinality(used) + acquiring <= maxsize

C1_Witness ==
    /\ acquiring > 0
    /\ used # {}
    /\ Len(free) + Cardinality(used) + acquiring = maxsize

\* C2: a session an acquire has returned is not returned by another acquire
\* before its holder has released it: no two tasks hold the same session
C2_NoDoubleHandOut ==
    \A t1, t2 \in Tasks :
        t1 # t2 /\ Holding(t1) /\ Holding(t2) => conn[t1] # conn[t2]

C2_Witness ==
    \E t1, t2 \in Tasks :
        /\ t1 # t2 /\ Holding(t1) /\ pc[t2] = "acq_wait"
        /\ conn[t1] > 1

\* C3: a session is in at most one of free, used and terminated, and occurs
\* at most once in free
C3_Disjoint ==
    /\ Range(free) \cap used = {}
    /\ Range(free) \cap terminated = {}
    /\ used \cap terminated = {}
    /\ \A i, j \in DOMAIN free : i # j => free[i] # free[j]

C3_Witness == free # <<>> /\ terminated # {}

\* C4 as stated: release(conn) of a terminated session only removes it from
\* terminated; else a session in a transaction, or any session when the pool
\* is closing, is closed and not put in free; else it is appended to free and
\* a notification is scheduled
C4_ReleaseAsStated ==
    [][\A t \in Tasks : ReleaseStep(t) =>
         LET c == conn[t] IN
         IF c \in terminated
         THEN /\ terminated' = terminated \ {c}
              /\ UNCHANGED <<free, used, acquiring, closing, closed, wakeups, reader>>
         ELSE IF inTrans[c] \/ closing
         THEN reader'[c] = "none" /\ free' = free
         ELSE free' = Append(free, c) /\ wakeups' = wakeups + 1]_vars

\* C4 amended: as stated, except that a session that is not connected is
\* only removed from used: it is not put in free and nothing is scheduled
C4_Release ==
    [][\A t \in Tasks : ReleaseStep(t) =>
         LET c == conn[t] IN
         IF c \in terminated
         THEN /\ terminated' = terminated \ {c}
              /\ UNCHANGED <<free, used, acquiring, closing, closed, wakeups, reader>>
         ELSE /\ used' = used \ {c}
              /\ UNCHANGED terminated
              /\ IF ~connected[c]
                 THEN UNCHANGED <<free, wakeups, reader>>
                 ELSE IF inTrans[c] \/ closing
                 THEN reader'[c] = "none" /\ free' = free
                 ELSE free' = Append(free, c) /\ wakeups' = wakeups + 1]_vars

C4_Witness ==
    \E t \in Tasks :
        /\ pc[t] = "idle" /\ wakeups > 0 /\ ~closing
        /\ free # <<>> /\ Cardinality(used) + 1 = maxsize

\* C5: a session whose task was cancelled between the write of a command and
\* the read of its response never enters free
C5_PoisonedNeverFree == \A c \in Range(free) : ~inflight[c]

\* C6: once the pool is closing no acquire returns a session and no session
\* is created
C6_NothingAfterClose ==
    [][closing =>
         /\ nextId' = nextId
         /\ \A t \in Tasks : Holding(t)' => Holding(t)]_vars

\* C7: acquire() on a closing pool and wait_closed() on a pool that is not
\* closing raise RuntimeError and leave the pool as it was
C7_Misuse ==
    [][\A t \in Tasks :
         /\ (pc[t] = "idle" /\ closing /\ (op'[t] = "acquire" \/ Holding(t)'))
               => /\ pc'[t] = "ret" /\ result'[t] = "RuntimeError"
                  /\ UNCHANGED <<poolVars, syncVars>>
         /\ (pc[t] = "idle" /\ ~closing /\ (op'[t] = "wait_closed" \/ closed'))
               => /\ pc'[t] = "ret" /\ result'[t] = "RuntimeError"
                  /\ UNCHANGED <<poolVars, syncVars>>]_vars

C7_Witness ==
    \E t1, t2 \in Tasks :
        /\ pc[t1] = "ret" /\ op[t1] = "acquire" /\ result[t1] = "RuntimeError"
        /\ pc[t2] = "ret" /\ op[t2] = "wait_closed" /\ result[t2] = "RuntimeError"

\* C8: a wait_closed() that is pending when no session is outstanding any
\* more eventually marks the pool closed
C8_WaitClosedReturns ==
    \A t \in Tasks :
        (op[t] = "wait_closed" /\ pc[t] # "ret" /\ used = {} /\ acquiring = 0)
            ~> (closed \/ used # {} \/ acquiring > 0)

\* C9 as stated: once wait_closed() has returned, free, used and terminated
\* are empty
C9_AllEmptyAsStated ==
    [][~closed /\ closed' => free' = <<>> /\ used' = {} /\ terminated' = {}]_vars

\* C9 amended: when wait_closed() returns, used is empty and no connect is in
\* progress; sessions that terminate() moved to terminated are closed and
\* stay there until their holders release them
C9_WaitClosedLeaves ==
    /\ [](\A c \in terminated : reader[c] = "none")
    /\ [][~closed /\ closed' => used' = {} /\ acquiring' = 0]_vars

C9_Witness == closed /\ terminated # {}

MAX_PACKET_LEN == 16777215

\* opcodes _execute_command is called with: query, select_db, ping, kill
Opcodes == {"COM_QUERY", "COM_INIT_DB", "COM_PING", "COM_PROCESS_KILL"}

\* body lengths around the fragmentation boundaries
BodyLens ==
    {0, 1, 5, MAX_PACKET_LEN - 2, MAX_PACKET_LEN - 1, MAX_PACKET_LEN,
     MAX_PACKET_LEN + 5, 2 * MAX_PACKET_LEN - 2, 2 * MAX_PACKET_LEN - 1,
     2 * MAX_PACKET_LEN}

min(a, b) == IF a < b THEN a ELSE b

\* a frame: the header's length and sequence id, and its payload: the command
\* byte op (when it has one) followed by bytes [from, from + n) of the body.
\* A server frame carries kind, the meaning of its payload.
Frame(len, seq, kind, o, from, n) ==
    [len |-> len, seq |-> seq, kind |-> kind, op |-> o, from |-> from, n |-> n]

\* len(payload) of a frame
PayloadLen(f) == (IF f.op = "none" THEN 0 ELSE 1) + f.n

\* the payload of a frame as one piece of bytes
Chunk(f) == [op |-> f.op, from |-> f.from, n |-> f.n]

\* buff.extend(recv_data): bytes b[i:j] followed by b[j:k] are b[i:k]
Extend(buff, c) ==
    IF c.op = "none" /\ c.n = 0 THEN buff
    ELSE IF /\ buff # <<>>
            /\ c.op = "none"
            /\ buff[Len(buff)].from + buff[Len(buff)].n = c.from
         THEN [buff EXCEPT ![Len(buff)].n = @ + c.n]
         ELSE Append(buff, c)

\* Connection.write_packet: 3 bytes of length, the sequence id, the payload;
\* then _next_seq_id advances
write_packet(seq, from, n) ==
    [frame |-> Frame(n % 16777216, seq, "data", "none", from, n),
     seq |-> (seq + 1) % 256]

\* _execute_command, the loop that writes what is left of sql
RECURSIVE WriteRest(_, _, _, _)
WriteRest(out, seq, from, rest) ==
    LET packet_size == min(MAX_PACKET_LEN, rest)
        w == write_packet(seq, from, packet_size)
        left == rest - packet_size
    IN  IF left = 0 /\ packet_size < MAX_PACKET_LEN
        THEN [wire |-> Append(out, w.frame), seq |-> w.seq]
        ELSE WriteRest(Append(out, w.frame), w.seq, from + packet_size, left)

\* _execute_command, from packet_size on: the first frame is built by hand as
\* iB.pack(packet_size, command) + sql[:packet_size - 1], a 4-byte int whose
\* top byte lands in the sequence id, and _next_seq_id is set to 1
ExecuteFramesNoTrailer(command, len) ==
    LET packet_size == min(MAX_PACKET_LEN, len + 1)
        first == Frame(packet_size % 16777216, (packet_size \div 16777216) % 256,
                       "cmd", command, 0, min(len, packet_size - 1))
    IN  IF packet_size < MAX_PACKET_LEN \/ len = packet_size - 1
        THEN [wire |-> <<first>>, seq |-> 1]
        ELSE WriteRest(<<first>>, 1, packet_size - 1, len - (packet_size - 1))

ExecuteFramesShortFirst(command, len) ==
    LET packet_size == min(MAX_PACKET_LEN, len + 1)
        first == Frame(packet_size % 16777216, (packet_size \div 16777216) % 256,
                       "cmd", command, 0, min(len, packet_size - 1))
    IN  IF packet_size < MAX_PACKET_LEN
        THEN [wire |-> <<first>>, seq |-> 1]
        ELSE WriteRest(<<first>>, 1, packet_size, len - packet_size)

ExecuteFrames(command, len) ==
    LET packet_size == min(MAX_PACKET_LEN, len + 1)
        first == Frame(packet_size % 16777216, (packet_size \div 16777216) % 256,
                       "cmd", command, 0, min(len, packet_size - 1))
    IN  IF packet_size < MAX_PACKET_LEN
        THEN [wire |-> <<first>>, seq |-> 1]
        ELSE WriteRest(<<first>>, 1, packet_size - 1, len - (packet_size - 1))

\* read_packet, the loop over frames: HBB.unpack gives the low 16 bits, the
\* high 8 bits and the sequence id; a frame of 0xFFFFFF bytes is followed by
\* more of the same packet.  box: the unread frames; kind: of the first frame.
\* A rejected frame leaves its payload unread in the stream.
RECURSIVE ReadFramesStopsAtFull(_, _, _, _)
ReadFramesStopsAtFull(box, seq, buff, kind) ==
    IF box = <<>>
    THEN [st |-> "starved", seq |-> seq, box |-> box, buff |-> buff,
          kind |-> kind, garbled |-> FALSE]
    ELSE LET f == Head(box)
             bytes_to_read == (f.len % 65536) + ((f.len \div 65536) * 65536)
             k == IF kind = "none" THEN f.kind ELSE kind
         IN  IF f.seq # seq
             THEN [st |-> IF f.seq = 0 THEN "OperationalError" ELSE "InternalError",
                   seq |-> seq, box |-> Tail(box), buff |-> <<>>, kind |-> "none",
                   garbled |-> bytes_to_read > 0]
             ELSE [st |-> "ok", seq |-> (seq + 1) % 256, box |-> Tail(box),
                   buff |-> Extend(buff, Chunk(f)), kind |-> k,
                   garbled |-> FALSE]

RECURSIVE ReadFramesNoWrap(_, _, _, _)
ReadFramesNoWrap(box, seq, buff, kind) ==
    IF box = <<>>
    THEN [st |-> "starved", seq |-> seq, box |-> box, buff |-> buff,
          kind |-> kind, garbled |-> FALSE]
    ELSE LET f == Head(box)
             bytes_to_read == (f.len % 65536) + ((f.len \div 65536) * 65536)
             k == IF kind = "none" THEN f.kind ELSE kind
         IN  IF f.seq # seq
             THEN [st |-> IF f.seq = 0 THEN "OperationalError" ELSE "InternalError",
                   seq |-> seq, box |-> Tail(box), buff |-> <<>>, kind |-> "none",
                   garbled |-> bytes_to_read > 0]
             ELSE IF bytes_to_read = 16777215 \/ ~(bytes_to_read < MAX_PACKET_LEN)
                  THEN ReadFramesNoWrap(Tail(box), seq + 1,
                                  Extend(buff, Chunk(f)), k)
                  ELSE [st |-> "ok", seq |-> seq + 1, box |-> Tail(box),
                        buff |-> Extend(buff, Chunk(f)), kind |-> k,
                        garbled |-> FALSE]

RECURSIVE ReadFrames(_, _, _, _)
ReadFrames(box, seq, buff, kind) ==
    IF box = <<>>
    THEN [st |-> "starved", seq |-> seq, box |-> box, buff |-> buff,
          kind |-> kind, garbled |-> FALSE]
    ELSE LET f == Head(box)
             bytes_to_read == (f.len % 65536) + ((f.len \div 65536) * 65536)
             k == IF kind = "none" THEN f.kind ELSE kind
         IN  IF f.seq # seq
             THEN [st |-> IF f.seq = 0 THEN "OperationalError" ELSE "InternalError",
                   seq |-> seq, box |-> Tail(box), buff |-> <<>>, kind |-> "none",
                   garbled |-> bytes_to_read > 0]
             ELSE IF bytes_to_read = 16777215 \/ ~(bytes_to_read < MAX_PACKET_LEN)
                  THEN ReadFrames(Tail(box), (seq + 1) % 256,
                                  Extend(buff, Chunk(f)), k)
                  ELSE [st |-> "ok", seq |-> (seq + 1) % 256, box |-> Tail(box),
                        buff |-> Extend(buff, Chunk(f)), kind |-> k,
                        garbled |-> FALSE]

\* the codec is not used while the pool or a Connection is followed
CodecUnused == c_pc = "off" /\ c_in = 0 /\ c_bytes = <<>> /\ c_out = "none"

\* the pool is not used while one Connection is followed on its own
PoolUnused ==
    /\ maxsize = 1 /\ minsize = 0 /\ recycle = -1
    /\ free = <<>> /\ used = {} /\ terminated = {}
    /\ acquiring = 0 /\ closing = FALSE /\ closed = FALSE
    /\ lock = 0 /\ waiters = <<>> /\ wakeups = 0
    /\ pc = [t \in Tasks |-> "idle"]
    /\ op = [t \in Tasks |-> "none"]
    /\ conn = [t \in Tasks |-> 0]
    /\ result = [t \in Tasks |-> "none"]
    /\ nextId = 1
    /\ reader = [c \in ConnIds |-> "none"]
    /\ connected = [c \in ConnIds |-> FALSE]
    /\ inTrans = [c \in ConnIds |-> FALSE]
    /\ lastUsage = [c \in ConnIds |-> 0]
    /\ inflight = [c \in ConnIds |-> FALSE]
    /\ now = 0
    /\ staleSeen = [t \in Tasks |-> {}]
    /\ seenAt = [t \in Tasks |-> 0]

poolSide == <<cfgVars, poolVars, syncVars, taskVars, connVars, now, histVars,
              c_pc, c_in, c_bytes, c_out>>

\* ------------------------------------------- framing, write then read back
\* a command of any opcode and body length, sent at any value of _next_seq_id
FrameInit ==
    /\ PoolUnused /\ CodecUnused
    /\ s_connected = TRUE /\ s_writer = "open"
    /\ next_seq_id \in 0..255
    /\ wire = <<>> /\ inbox = <<>> /\ garbled = FALSE
    /\ s_result = NoResult
    /\ s_pc = "cmd" /\ s_call = "none" /\ s_err = "none"
    /\ opened = 1 /\ sent = 0 /\ staleAtSend = 0 /\ resultAtSend = NoResult
    /\ cmd \in [op : Opcodes, len : BodyLens]
    /\ packet = <<>>
    /\ local_infile = FALSE /\ s_ret = "none"
    /\ PlainLink

\* _execute_command writes the command
FExecute ==
    /\ s_pc = "cmd"
    /\ LET w == ExecuteFrames(cmd.op, cmd.len)
       IN  /\ wire' = w.wire
           /\ next_seq_id' = w.seq
    /\ s_pc' = "written"
    /\ UNCHANGED <<s_connected, s_writer, inbox, garbled, s_result, s_call, s_err,
                   opened, sent, staleAtSend, resultAtSend, cmd, packet>>
    /\ UNCHANGED callVars
    /\ UNCHANGED poolSide

\* the bytes written arrive at a reader that expects the exchange to start
FLoopback ==
    /\ s_pc = "written"
    /\ inbox' = wire
    /\ next_seq_id' = 0
    /\ s_pc' = "looped"
    /\ UNCHANGED <<s_connected, s_writer, wire, garbled, s_result, s_call, s_err,
                   opened, sent, staleAtSend, resultAtSend, cmd, packet>>
    /\ UNCHANGED callVars
    /\ UNCHANGED poolSide

\* read_packet reads one packet
FRead ==
    /\ s_pc = "looped"
    /\ LET r == ReadFrames(inbox, next_seq_id, <<>>, "none")
       IN  /\ packet' = r.buff
           /\ inbox' = r.box
           /\ next_seq_id' = r.seq
           /\ garbled' = r.garbled
           /\ s_err' = IF r.st = "ok" THEN "none" ELSE r.st
    /\ s_pc' = "read"
    /\ UNCHANGED <<s_connected, s_writer, wire, s_result, s_call,
                   opened, sent, staleAtSend, resultAtSend, cmd>>
    /\ UNCHANGED callVars
    /\ UNCHANGED poolSide

FrameNext == FExecute \/ FLoopback \/ FRead

FrameSpec == FrameInit /\ [][FrameNext]_vars

\* ----------------------------------------------------- framing properties
LastOf(q) == q[Len(q)]

\* index of the last frame of q that carries bytes
LastNonEmpty(q) ==
    CHOOSE i \in DOMAIN q :
        /\ PayloadLen(q[i]) > 0
        /\ \A j \in DOMAIN q : PayloadLen(q[j]) > 0 => j <= i

\* C13: the frames _execute_command writes each carry at most 2^24-1 bytes,
\* together they are the opcode followed by the body, their sequence ids run
\* from 0, and the last frame is empty iff the last non-empty one is 2^24-1 long
C13_Fragmentation ==
    s_pc \in {"written", "looped", "read"} =>
        /\ wire # <<>>
        /\ \A i \in DOMAIN wire :
            /\ PayloadLen(wire[i]) <= 16777215
            /\ wire[i].len = PayloadLen(wire[i])
            /\ wire[i].seq = i - 1
            /\ wire[i].op = (IF i = 1 THEN cmd.op ELSE "none")
            /\ wire[i].from = (IF i = 1 THEN 0
                               ELSE wire[i - 1].from + wire[i - 1].n)
        /\ LastOf(wire).from + LastOf(wire).n = cmd.len
        /\ (PayloadLen(LastOf(wire)) = 0)
               <=> (PayloadLen(wire[LastNonEmpty(wire)]) = 16777215)

C13_Witness ==
    /\ s_pc = "written"
    /\ Len(wire) = 3
    /\ PayloadLen(wire[3]) = 0
    /\ PayloadLen(wire[2]) = 16777215

QueryOf16777220 == cmd = [op |-> "COM_QUERY", len |-> 16777220]

\* C14 as stated: a query with a body of 16 777 220 bytes is written as two
\* frames with payloads of 16 777 215 and 5 bytes
C14_AsStated ==
    (QueryOf16777220 /\ s_pc = "written") =>
        /\ Len(wire) = 2
        /\ PayloadLen(wire[1]) = 16777215
        /\ PayloadLen(wire[2]) = 5

\* C14: a query with a body of 16 777 220 bytes is written as two frames with
\* payloads of 16 777 215 bytes (the opcode and 16 777 214 bytes of the body)
\* and 6 bytes
C14_TwoFrames ==
    (QueryOf16777220 /\ s_pc = "written") =>
        /\ Len(wire) = 2
        /\ PayloadLen(wire[1]) = 16777215
        /\ PayloadLen(wire[2]) = 6

C14_Witness == QueryOf16777220 /\ s_pc = "written" /\ Len(wire) = 2

\* index of the first frame of q shorter than 0xFFFFFF
FirstShort(q) ==
    CHOOSE i \in DOMAIN q :
        /\ q[i].len < 16777215
        /\ \A j \in DOMAIN q : q[j].len < 16777215 => i <= j

\* C15: read_packet takes the frames up to and including the first one shorter
\* than 0xFFFFFF and returns their payloads joined in order, so the frames a
\* command was written as are read back as the opcode followed by the body
C15_ReadBack ==
    s_pc = "read" =>
        /\ s_err = "none"
        /\ Len(wire) - Len(inbox) = FirstShort(wire)
        /\ \A i \in 1..(FirstShort(wire) - 1) : wire[i].len = 16777215
        /\ packet = <<[op |-> cmd.op, from |-> 0, n |-> cmd.len]>>
        /\ inbox = <<>>

C15_Witness ==
    /\ s_pc = "read"
    /\ Len(wire) = 3
    /\ wire[1].len = 16777215 /\ wire[2].len = 16777215
    /\ packet = <<[op |-> cmd.op, from |-> 0, n |-> 2 * 16777215 - 1]>>

\* ------------------------------------------------------------ the server
MaxOpens == 2      \* transports one Connection opens in a run
MaxCommands == 2   \* commands written on one transport
MaxRows == 2       \* rows of a result set that is read row by row
ManyRows == 252    \* rows of a large result set: its frames use every sequence id
MaxResults == 2    \* result sets in the answer to one query

\* what a server frame starts with decides how the client reads it
OkKinds == {"ok", "ok_more", "ok_trans"}
EofKinds == {"eof", "eof_more", "eof_trans"}

\* the status flags an OK or EOF packet carries: SERVER_STATUS_IN_TRANS is
\* the one followed here, and a packet without it carries the status 0
StatusOf(kind) ==
    IF kind \in {"ok_trans", "eof_trans"} THEN {"SERVER_STATUS_IN_TRANS"} ELSE {}
LoadKinds == {"load_local", "load_local_missing"}

\* payload sizes of the server's frames: OK is at least 7 bytes, EOF fewer than 9
SrvLen(kind) ==
    CASE kind \in OkKinds -> 7
      [] kind \in EofKinds -> 5
      [] kind = "err" -> 9
      [] kind \in {"hdr", "hdr2"} -> 1
      [] kind \in LoadKinds -> 10
      [] kind = "auth_switch" -> 30
      [] OTHER -> 2

Srv(kind, seq) == Frame(SrvLen(kind), seq % 256, kind, "none", 0, SrvLen(kind))

\* one result: shape -1 is an OK packet, -2 an ERR packet, -3 a LOCAL INFILE
\* request for a file that can be read and -5 one for a file that cannot be
\* opened, -4 a result set whose column definition is followed by a row, not
\* by an EOF; k >= 0 is a result set of one column and k rows, -6 - k one of
\* two columns and k rows; more: SERVER_MORE_RESULTS_EXISTS on its last packet
ResultFrames(shape, seq, more) ==
    IF shape = -1 THEN <<Srv(IF more THEN "ok_more" ELSE "ok", seq)>>
    ELSE IF shape = -2 THEN <<Srv("err", seq)>>
    ELSE IF shape = -3 THEN <<Srv("load_local", seq)>>
    ELSE IF shape = -5 THEN <<Srv("load_local_missing", seq)>>
    ELSE IF shape = -4
    THEN <<Srv("hdr", seq), Srv("field", seq + 1), Srv("row", seq + 2),
           Srv("eof", seq + 3)>>
    ELSE LET cols == IF shape < 0 THEN 2 ELSE 1
             rows == IF shape < 0 THEN -6 - shape ELSE shape
         IN  [i \in 1..(cols + rows + 3) |->
                IF i = 1 THEN Srv(IF cols = 2 THEN "hdr2" ELSE "hdr", seq)
                ELSE IF i <= cols + 1 THEN Srv("field", seq + i - 1)
                ELSE IF i = cols + 2 THEN Srv("eof", seq + i - 1)
                ELSE IF i = cols + rows + 3
                     THEN Srv(IF more THEN "eof_more" ELSE "eof", seq + i - 1)
                     ELSE Srv("row", seq + i - 1)]

\* shapes from InTrans on: the result InTrans + 1 + k is the result k sent
\* while a transaction is open, SERVER_STATUS_IN_TRANS set on its last packet
InTrans == 2 * ManyRows

Within(shape) == InTrans + 1 + shape

StatusFrames(shape, seq, more) ==
    IF shape < InTrans THEN ResultFrames(shape, seq, more)
    ELSE LET fs == ResultFrames(shape - InTrans - 1, seq, more)
         IN  [i \in 1..Len(fs) |->
                IF i = Len(fs) /\ fs[i].kind \in {"ok", "eof"}
                THEN [fs[i] EXCEPT !.kind = fs[i].kind \o "_trans"]
                ELSE fs[i]]

\* the answer to one command: its results one after the other, the sequence
\* ids going on from the command's frames
RECURSIVE ResponseFrames(_, _)
ResponseFrames(shapes, seq) ==
    IF shapes = <<>> THEN <<>>
    ELSE LET fs == StatusFrames(Head(shapes), seq, Len(shapes) > 1)
         IN  fs \o ResponseFrames(Tail(shapes), seq + Len(fs))

\* answers to a query: an error ends the answer; a large result set comes
\* first and is read buffered
Shapes == {-2, -1} \cup (0..MaxRows)

Answers(unbuffered) ==
    {a \in UNION {[1..n -> Shapes] : n \in 1..MaxResults} :
        \A i \in 1..(Len(a) - 1) : a[i] # -2}
    \cup (IF unbuffered THEN {} ELSE {<<ManyRows>>, <<ManyRows, 0>>})

\* the answers of a server that also asks for local files, sends result sets
\* of two columns and may leave out the EOF after the column definitions
ExchShapes == ((-6 - MaxRows)..-1) \cup (0..MaxRows)

ExchAnswers ==
    {a \in UNION {[1..n -> ExchShapes] : n \in 1..MaxResults} :
        \A i \in 1..(Len(a) - 1) : a[i] \notin {-2, -3, -4, -5}}

\* answers to a command that is answered by one OK or ERR packet
OkAnswers == {<<-1>>, <<-2>>}

\* ----------------------------------------------------- the Connection
\* the Connection as a record, for the methods below
Cur ==
    [connected |-> s_connected, writer |-> s_writer, seq |-> next_seq_id,
     wire |-> wire, inbox |-> inbox, garbled |-> garbled, result |-> s_result,
     opened |-> opened, sent |-> sent, stale |-> staleAtSend,
     found |-> resultAtSend, cmd |-> cmd,
     local_infile |-> local_infile, ret |-> "none", rs |-> NoTally,
     ssl_context |-> ssl_context, unix_socket |-> unix_socket, secure |-> secure,
     server_status |-> server_status, auth_packet |-> auth_packet,
     res |-> NoResult, kind |-> "none", fin |-> FALSE, st |-> "ok"]

\* raise e
Raise(s, e) == [s EXCEPT !.st = e]

\* x, then F of it: one statement after the other
Then(x, F(_)) == CHOOSE r \in {F(y) : y \in {x}} : TRUE

\* the statements that follow an await: skipped when it raised
Await(x, F(_)) == Then(x, LAMBDA t : IF t.st # "ok" THEN t ELSE F(t))

\* Connection.read_packet.  _reader None: AttributeError.  Bytes that do not
\* start at a header: the sequence id read is wrong (g: 0 or not).  No frame
\* left: IncompleteReadError on a lost transport, otherwise the read waits.
\* An ERR packet raises; "self._result.unbuffered_active is True" compares an
\* int with True and never holds, so the flag is left as it is.
read_packetAdvancesOnReject(s, g) ==
    IF s.writer = "none" THEN Raise(s, "AttributeError")
    ELSE IF s.garbled THEN Raise([s EXCEPT !.seq = (@ + 1) % 256], g)
    ELSE Then(ReadFrames(s.inbox, s.seq, <<>>, "none"), LAMBDA r :
           Then([s EXCEPT !.seq = (IF r.st \in {"ok", "starved"} THEN r.seq
                                   ELSE (r.seq + 1) % 256),
                          !.inbox = r.box,
                          !.garbled = r.garbled, !.kind = r.kind], LAMBDA t :
             IF r.st = "starved"
             THEN Raise(t, IF s.writer = "lost" THEN "OperationalError" ELSE "wait")
             ELSE IF r.st # "ok" THEN Raise(t, r.st)
             ELSE IF r.kind = "err" THEN Raise(t, "DatabaseError")
             ELSE t))

read_packet(s, g) ==
    IF s.writer = "none" THEN Raise(s, "AttributeError")
    ELSE IF s.garbled THEN Raise(s, g)
    ELSE Then(ReadFrames(s.inbox, s.seq, <<>>, "none"), LAMBDA r :
           Then([s EXCEPT !.seq = r.seq, !.inbox = r.box,
                          !.garbled = r.garbled, !.kind = r.kind], LAMBDA t :
             IF r.st = "starved"
             THEN Raise(t, IF s.writer = "lost" THEN "OperationalError" ELSE "wait")
             ELSE IF r.st # "ok" THEN Raise(t, r.st)
             ELSE IF r.kind = "err" THEN Raise(t, "DatabaseError")
             ELSE t))

\* Connection._read_ok_packet
read_ok_packet(s, g) ==
    Await(read_packet(s, g), LAMBDA t :
        IF t.kind \notin OkKinds THEN Raise(t, "OperationalError")
        ELSE [t EXCEPT !.server_status = StatusOf(t.kind)])

\* LoadLocalPacketWrapper(first_packet): a cdef class that declares no
\* attributes, so "self.packet = from_packet" in its __init__ raises
\* AttributeError
LoadLocalPacketWrapper(s) == Raise(s, "AttributeError")

\* LoadLocalFile.send_data.  The request (s.kind) names a file that can be
\* opened and holds more than packet_size = min(max_allowed_packet, 16 KiB)
\* bytes, or one that cannot.  write_packet is a plain method that returns
\* None: "await conn.write_packet(chunk)" writes the frame and then raises
\* TypeError; the finally clause writes the empty frame and raises TypeError
\* the same way, in place of whatever was being raised.  The server answers
\* the empty frame.
send_data(s) ==
    IF ~s.connected THEN Raise(s, "InterfaceError")
    ELSE Then(write_packet(s.seq, 0, 16384), LAMBDA chunk :
           Then(IF s.kind = "load_local"
                THEN [s EXCEPT !.wire = Append(@, chunk.frame), !.seq = chunk.seq]
                ELSE s, LAMBDA t :
              Then(write_packet(t.seq, 0, 0), LAMBDA end :
                 Raise([t EXCEPT !.wire = Append(@, end.frame), !.seq = end.seq,
                                 !.inbox = IF t.writer = "open"
                                           THEN @ \o <<Srv("ok", end.seq)>>
                                           ELSE @],
                       "TypeError"))))

\* MySQLResult._read_load_local_packet on the request just read
read_load_local_packetUnchecked(s, g) == LoadLocalPacketWrapper(s)

read_load_local_packet(s, g) ==
    IF ~s.local_infile THEN Raise(s, "RuntimeError")
    ELSE Await(LoadLocalPacketWrapper(s), LAMBDA w :
           Then(send_data(w), LAMBDA d :
              IF d.st # "ok"
              THEN Await(read_packet([d EXCEPT !.st = "ok"], g),
                         LAMBDA r : Raise(r, d.st))
              ELSE Await(read_packet(d, g), LAMBDA k :
                     IF k.kind \notin OkKinds THEN Raise(k, "OperationalError")
                     ELSE [k EXCEPT !.res.has_next = (k.kind = "ok_more"),
                                    !.res.server_status = StatusOf(k.kind)])))

\* MySQLResult._get_descriptions: field_count comes from the header packet
\* (1 or 2 here), one packet is read per field, then the EOF that must
\* follow.  A first packet that is no result-set header is read as one all
\* the same: from there on the reader is out of step.
get_descriptions(s, g) ==
    Await(read_packet(IF s.kind \in {"hdr", "hdr2"}
                      THEN [s EXCEPT !.rs.field_count = IF s.kind = "hdr2" THEN 2 ELSE 1]
                      ELSE [s EXCEPT !.rs.field_count = 1, !.garbled = TRUE], g),
          LAMBDA f :
        Await(IF f.rs.field_count = 2 THEN read_packet(f, g) ELSE f, LAMBDA h :
            Await(read_packet(h, g), LAMBDA e :
                IF e.kind \notin EofKinds THEN Raise(e, "AssertionError")
                ELSE [e EXCEPT !.rs.description = e.rs.field_count])))

\* MySQLResult._check_packet_is_eof on the packet just read
check_packet_is_eof(s) ==
    IF s.kind \in EofKinds
    THEN [s EXCEPT !.res.has_next = (s.kind = "eof_more")]
    ELSE s

\* MySQLResult._read_rowdata_packet, one turn of its loop: a packet is read,
\* an EOF ends the loop (fin), anything else is a row and is appended
RowTurn(s, g) ==
    IF s.st # "ok" \/ s.fin THEN s
    ELSE Await(read_packet(s, g), LAMBDA t :
            IF t.kind \in EofKinds
            THEN [check_packet_is_eof(t) EXCEPT !.fin = TRUE]
            ELSE [t EXCEPT !.rs.rows = @ + 1])

\* 2^k turns of the loop, nested so that a long loop is not a deep recursion
RECURSIVE RowTurns(_, _, _)
RowTurns(s, g, k) ==
    IF k = 0 THEN RowTurn(s, g)
    ELSE Then(RowTurns(s, g, k - 1), LAMBDA t : RowTurns(t, g, k - 1))

\* MySQLResult._read_rowdata_packet: rows are read until the EOF, then
\* affected_rows = len(rows); the frames of a result set are at most 2^8
\* here, so the loop is over by then
read_rowdata_packetNoCount(s, g) ==
    Then(RowTurns([s EXCEPT !.fin = FALSE], g, 8), LAMBDA t :
        IF t.st = "ok" /\ ~t.fin THEN Raise(t, "wait") ELSE [t EXCEPT !.fin = FALSE])

read_rowdata_packet(s, g) ==
    Then(RowTurns([s EXCEPT !.fin = FALSE], g, 8), LAMBDA t :
        IF t.st # "ok" THEN t
        ELSE IF ~t.fin THEN Raise(t, "wait")
        ELSE [t EXCEPT !.fin = FALSE, !.rs.affected_rows = t.rs.rows])

\* MySQLResult.read: an OK packet, a LOCAL INFILE request, or a result set
\* read to its last EOF
ResultRead(s, g) ==
    Await(read_packet([s EXCEPT !.res = [NoResult EXCEPT !.present = TRUE],
                                !.rs = NoTally], g), LAMBDA t :
        IF t.kind \in OkKinds
        THEN [t EXCEPT !.res.has_next = (t.kind = "ok_more"),
                       !.res.server_status = StatusOf(t.kind)]
        ELSE IF t.kind \in LoadKinds THEN read_load_local_packet(t, g)
        ELSE Await(get_descriptions(t, g), LAMBDA d : read_rowdata_packet(d, g)))

\* 18446744073709551615 = 2^64 - 1, as its 8 bytes, least significant first
MaxU64 == [i \in 1..8 |-> 255]

\* an integer of 8 bytes stored in a C int ("public int affected_rows"): the
\* low 32 bits, as a signed number
c_int(n) ==
    n[1] + 256 * n[2] + 65536 * n[3]
        + 16777216 * (IF n[4] >= 128 THEN n[4] - 256 ELSE n[4])

\* the 8 bytes of a Python int that is not negative and below 2^31; a
\* negative one has none
AsBytes(i) ==
    IF i < 0 THEN <<>>
    ELSE [k \in 1..8 |-> IF k > 4 THEN 0 ELSE (i \div (256 ^ (k - 1))) % 256]

\* MySQLResult.init_unbuffered_query: the rows stay unread; affected_rows is
\* set to 18446744073709551615, which a C int holds as -1
init_unbuffered_query(s, g) ==
    Await(read_packet([s EXCEPT !.res = [NoResult EXCEPT !.present = TRUE,
                                                         !.unbuffered_active = TRUE,
                                                         !.connection = TRUE],
                                !.rs = NoTally], g), LAMBDA t :
        IF t.kind \in OkKinds
        THEN [t EXCEPT !.res.has_next = (t.kind = "ok_more"),
                       !.res.server_status = StatusOf(t.kind),
                       !.res.unbuffered_active = FALSE,
                       !.res.connection = FALSE]
        ELSE IF t.kind \in LoadKinds THEN read_load_local_packet(t, g)
        ELSE Await(get_descriptions(t, g), LAMBDA d :
                [d EXCEPT !.rs.affected_rows = c_int(MaxU64)]))

\* Connection._read_query_result: _result is None until the result is read;
\* server_status is taken from the result when the result's is not 0
read_query_result(s, unbuffered, g) ==
    Await(IF unbuffered THEN init_unbuffered_query([s EXCEPT !.result = NoResult], g)
          ELSE ResultRead([s EXCEPT !.result = NoResult], g),
          LAMBDA t : [t EXCEPT !.result = t.res,
                               !.server_status = IF t.res.server_status # {}
                                                 THEN t.res.server_status ELSE @])

\* Cursor._do_get_result: the cursor copies rowcount, rows and description
\* from the result
do_get_result(s) == IF s.st = "ok" THEN [s EXCEPT !.ret = s.rs] ELSE s

\* MySQLResult._read_rowdata_packet_unbuffered on _result: nothing when the
\* stream is over, else one packet: the EOF, or a row that is returned
read_rowdata_packet_unbufferedStaysActive(s, g) ==
    IF ~s.result.unbuffered_active THEN s
    ELSE Await(read_packet([s EXCEPT !.res = s.result], g), LAMBDA t :
            IF t.kind \in EofKinds
            THEN Then(check_packet_is_eof(t), LAMBDA e : [e EXCEPT !.result = e.res])
            ELSE [t EXCEPT !.ret = "row"])

read_rowdata_packet_unbuffered(s, g) ==
    IF ~s.result.unbuffered_active THEN s
    ELSE Await(read_packet([s EXCEPT !.res = s.result], g), LAMBDA t :
            IF t.kind \in EofKinds
            THEN Then(check_packet_is_eof(t), LAMBDA e :
                   [e EXCEPT !.result = [e.res EXCEPT !.unbuffered_active = FALSE,
                                                      !.connection = FALSE]])
            ELSE [t EXCEPT !.ret = "row"])

\* MySQLResult._finish_unbuffered_query, awaited: packets are read until the
\* EOF
RECURSIVE finish_unbuffered_query(_, _)
finish_unbuffered_query(s, g) ==
    IF s.st # "ok" \/ ~s.result.unbuffered_active THEN s
    ELSE Then(read_rowdata_packet_unbuffered(s, g),
              LAMBDA t : finish_unbuffered_query([t EXCEPT !.ret = "none"], g))

\* SSCursor.close, "while await self.nextset()": each further result is
\* opened unbuffered, and the loop ends at the first whose has_next is not
\* set, which a result set that has not been read to its EOF never has
RECURSIVE NextSets(_, _)
NextSets(s, g) ==
    IF s.st # "ok" \/ ~s.result.has_next THEN s
    ELSE Then(read_query_result(s, TRUE, g), LAMBDA t : NextSets(t, g))

\* SSCursor.close on the cursor whose result is the connection's
sscursor_close(s, g) ==
    Await(finish_unbuffered_query(s, g), LAMBDA t : NextSets(t, g))

\* _execute_command: while self._result.has_next: await self.next_result()
RECURSIVE DrainNext(_, _)
DrainNext(s, g) ==
    IF s.st # "ok" \/ ~s.result.has_next THEN s
    ELSE Then(read_query_result(s, FALSE, g), LAMBDA t : DrainNext(t, g))

\* how many frames, or bytes out of step, are unread
Unread(s) == Len(s.inbox) + (IF s.garbled THEN 1 ELSE 0)

\* _execute_command from "if isinstance(sql, str)" on: the frames are handed
\* to the transport; a server that is there answers (shapes).  found: the
\* _result that _execute_command found.
SendCommand(s, command, len, shapes, found) ==
    IF s.writer = "none" THEN Raise(s, "AttributeError")
    ELSE Then(ExecuteFrames(command, len), LAMBDA w :
           [s EXCEPT !.wire = w.wire, !.seq = w.seq, !.sent = @ + 1,
                     !.stale = Unread(s), !.found = found,
                     !.cmd = [op |-> command, len |-> len],
                     !.inbox = IF s.writer = "open"
                               THEN @ \o ResponseFrames(shapes, Len(w.wire))
                               ELSE @])

\* Connection._execute_command; shapes: what the server answers.
\* _finish_unbuffered_query() is a coroutine function called without await:
\* the call makes a coroutine object that never runs.
execute_commandNoDrain(s, command, len, shapes, g) ==
    IF ~s.connected THEN Raise(s, "InterfaceError")
    ELSE SendCommand([s EXCEPT !.result = NoResult], command, len, shapes,
                     s.result)

execute_command(s, command, len, shapes, g) ==
    IF ~s.connected THEN Raise(s, "InterfaceError")
    ELSE Await(IF s.result.present THEN DrainNext(s, g) ELSE s, LAMBDA d :
            SendCommand([d EXCEPT !.result = NoResult], command, len, shapes,
                        s.result))

\* Connection.close: the transport is closed, _writer and _reader become None
close(s) == [s EXCEPT !.writer = "none", !.inbox = <<>>, !.garbled = FALSE]

\* Connection.ensure_closed: COM_QUIT as one frame with sequence id 0, drain,
\* close.  reset: drain() raises on a transport that is lost.
ensure_closed(s, reset) ==
    IF ~s.connected THEN [close(s) EXCEPT !.connected = FALSE]
    ELSE IF s.writer = "none" THEN Raise(s, "AttributeError")
    ELSE IF s.writer = "lost" /\ reset
         THEN Raise([s EXCEPT !.wire = <<Frame(1, 0, "cmd", "COM_QUIT", 0, 0)>>],
                    "ConnectionResetError")
         ELSE [close(s) EXCEPT !.connected = FALSE,
                               !.wire = <<Frame(1, 0, "cmd", "COM_QUIT", 0, 0)>>]

\* connect(), opening the transport: asyncio.wait_for(open_connection or
\* open_unix_connection, connect_timeout); over a unix socket _secure = True;
\* _next_seq_id = 0.  A server that is there sends its greeting, with
\* sequence id 0, unless it stays silent.
OpenTransport(s, how) ==
    [s EXCEPT !.writer = "open", !.opened = @ + 1, !.sent = 0,
              !.inbox = IF how = "silent" THEN <<>> ELSE <<Srv("greet", 0)>>,
              !.garbled = FALSE, !.seq = 0,
              !.secure = IF s.unix_socket THEN TRUE ELSE @,
              !.auth_packet = "none"]

\* Connection._get_server_information: the greeting is read, server_status
\* is taken from it
get_server_information(s, g) ==
    Await(read_packet(s, g), LAMBDA a : [a EXCEPT !.server_status = {}])

\* what the server answers to the login, and to the answer to its
\* authentication switch request
SwitchWays == {"switch_ok", "switch_denied", "switch_again", "switch_more"}

LoginReply(how) ==
    CASE how = "denied" -> "err"
      [] how \in SwitchWays -> "auth_switch"
      [] how = "extra" -> "auth_more"
      [] OTHER -> "ok"

SwitchReply(how) ==
    CASE how = "switch_denied" -> "err"
      [] how = "switch_again" -> "auth_switch"
      [] how = "switch_more" -> "auth_more"
      [] OTHER -> "ok"

\* one packet of the authentication exchange is written and the server's
\* answer to it is read
Exchange(s, n, reply, g) ==
    Then(write_packet(s.seq, 0, n), LAMBDA w :
        read_packet([s EXCEPT !.wire = Append(@, w.frame), !.seq = w.seq,
                              !.inbox = <<Srv(reply, w.seq)>>], g))

\* Connection._process_auth for mysql_native_password: the scramble is
\* written, one packet is read, check_error(), and the packet is returned
process_auth(s, how, g) == Exchange(s, 20, SwitchReply(how), g)

\* with an ssl context: the short packet is written and the transport is
\* opened again over TLS on the same socket
StartTLS(s) ==
    IF ~s.ssl_context THEN s
    ELSE Then(write_packet(s.seq, 0, 32), LAMBDA w :
            [s EXCEPT !.wire = Append(@, w.frame), !.seq = w.seq])

\* Connection._request_authentication: the login is written and its answer
\* read; an authentication switch request is answered by _process_auth,
\* extra authentication data is an error for mysql_native_password; the
\* last packet read is returned
request_authentication(s, how, g) ==
    Await(Exchange(StartTLS([s EXCEPT !.wire = <<>>]), 64, LoginReply(how), g),
          LAMBDA a :
        Then(IF a.kind = "auth_switch" THEN process_auth(a, how, g)
             ELSE IF a.kind = "auth_more" THEN Raise(a, "OperationalError")
             ELSE a,
             LAMBDA b : IF b.st = "ok" THEN [b EXCEPT !.auth_packet = b.kind] ELSE b))

\* connect() from _get_server_information() to _connected = True; what
\* _request_authentication returns is not looked at
Handshake(s, how, g) ==
    Await(get_server_information(s, g), LAMBDA a :
        Await(request_authentication(a, how, g),
              LAMBDA c : [c EXCEPT !.connected = TRUE]))

\* connect() after _connected = True: autocommit(False) sends SET AUTOCOMMIT
\* when the server's status says autocommit is on; the server answers OK, or
\* ERR when it refuses
SetAutocommit(s, how, g) ==
    IF how = "autocommit_off" THEN s
    ELSE Await(execute_command(s, "COM_QUERY", 18,
                               IF how = "autocommit_refused" THEN <<-2>> ELSE <<-1>>,
                               g), LAMBDA x :
            Await(read_ok_packet(x, g), LAMBDA y : [y EXCEPT !.sent = 0]))

\* connect() once the transport is open.  Any exception closes the transport
\* and is raised again.
Login(s, how, g) ==
    Then(Await(Handshake(s, how, g), LAMBDA c : SetAutocommit(c, how, g)),
         LAMBDA e : IF e.st \notin {"ok", "wait"} THEN Raise(close(e), e.st) ELSE e)

\* Connection.connect.  how: the server cannot be reached, or takes the login
\* in one of LoginWays.
connect(s, how, g) ==
    IF s.connected THEN s
    ELSE IF how = "unreachable" THEN Raise(close(s), "OperationalError")
    ELSE Login(OpenTransport(s, how), how, g)

\* every way a server takes a connect, once it is reached
LoginWays ==
    {"denied", "autocommit_on", "autocommit_off", "autocommit_refused", "extra"}
        \cup SwitchWays

ConnectWays == {"unreachable"} \cup LoginWays

\* COM_PING and its answer
PingOnce(s, shapes, g) ==
    Await(execute_command(s, "COM_PING", 0, shapes, g),
          LAMBDA x : read_ok_packet(x, g))

\* Connection.ping
ping(s, reconnect, how, shapes, g) ==
    Await(IF s.connected THEN s
          ELSE IF reconnect THEN connect(s, how, g) ELSE Raise(s, "Error"),
          LAMBDA first :
        Then(PingOnce(first, shapes, g), LAMBDA t :
            IF t.st \in {"ok", "wait"} \/ ~(s.connected /\ reconnect) THEN t
            ELSE Await(connect(Raise(t, "ok"), how, g), LAMBDA u :
                    IF ~u.connected THEN Raise(u, "Error")
                    ELSE PingOnce(u, shapes, g))))

\* ------------------------------------------------- calls on one Connection
\* what read_packet finds in bytes that are out of step: a sequence id that
\* is wrong, 0 or not; nothing is out of step while nothing is unread
Guesses ==
    IF garbled \/ inbox # <<>> THEN {"InternalError", "OperationalError"}
    ELSE {"InternalError"}

\* the fields of the Connection after a method ran
Put(s) ==
    /\ s_connected' = s.connected
    /\ s_writer' = s.writer
    /\ next_seq_id' = s.seq
    /\ wire' = s.wire
    /\ inbox' = s.inbox
    /\ garbled' = s.garbled
    /\ s_result' = s.result
    /\ opened' = s.opened
    /\ sent' = s.sent
    /\ staleAtSend' = s.stale
    /\ resultAtSend' = s.found
    /\ cmd' = s.cmd
    /\ s_ret' = s.ret
    /\ secure' = s.secure
    /\ server_status' = s.server_status
    /\ auth_packet' = s.auth_packet
    /\ UNCHANGED <<packet, local_infile, ssl_context, unix_socket>>
    /\ UNCHANGED poolSide

\* the call returns or raises; a read that waits for bytes that never come
\* does neither
Finish(s, call) ==
    /\ s.st # "wait"
    /\ Put(s)
    /\ s_pc' = "done"
    /\ s_call' = call
    /\ s_err' = IF s.st = "ok" THEN "none" ELSE s.st

\* await conn.connect()
SConnect(how, g) ==
    /\ s_pc = "idle"
    /\ how = "unreachable" \/ opened < MaxOpens
    /\ \E s \in {connect(Cur, how, g)} : Finish(s, "connect")

\* the calls that send one command, with its opcode, the body lengths tried
\* and the answers the server may give
CommandCalls == {"query", "query_unbuffered", "commit", "select_db", "kill"}

OpcodeOf(call) ==
    CASE call = "select_db" -> "COM_INIT_DB"
      [] call = "kill" -> "COM_PROCESS_KILL"
      [] OTHER -> "COM_QUERY"

LensOf(call) ==
    CASE call \in {"query", "query_unbuffered"} -> {5, MAX_PACKET_LEN}
      [] call = "commit" -> {6}
      [] call = "kill" -> {4}
      [] OTHER -> {2}

AnswersOf(call) ==
    CASE call = "query" -> Answers(FALSE)
      [] call = "query_unbuffered" -> Answers(TRUE)
      [] OTHER -> OkAnswers

\* query, commit, select_db, kill up to the end of _execute_command
SExecute(call, len, shapes, g) ==
    /\ s_pc = "idle"
    /\ sent < MaxCommands
    /\ \E s \in {execute_command(Cur, OpcodeOf(call), len, shapes, g)} :
           /\ s.st # "wait"
           /\ Put(s)
           /\ s_pc' = IF s.st = "ok" THEN "reply" ELSE "done"
           /\ s_call' = call
           /\ s_err' = IF s.st = "ok" THEN "none" ELSE s.st

\* ... and from there: _read_query_result or _read_ok_packet
SReply(g) ==
    /\ s_pc = "reply"
    /\ \E s \in {IF s_call = "query"
                THEN do_get_result(read_query_result(Cur, FALSE, g))
                ELSE IF s_call = "query_unbuffered"
                     THEN do_get_result(read_query_result(Cur, TRUE, g))
                     ELSE read_ok_packet(Cur, g)} :
           Finish(s, s_call)

\* SSCursor.fetchone -> _read_rowdata_packet_unbuffered
SFetch(g) ==
    /\ s_pc = "idle"
    /\ s_result.present
    /\ \E s \in {read_rowdata_packet_unbuffered(Cur, g)} : Finish(s, "fetch")

\* Cursor._nextset -> Connection.next_result
SNextResult(unbuffered, g) ==
    /\ s_pc = "idle"
    /\ s_result.present /\ s_result.has_next
    /\ \E s \in {do_get_result(read_query_result(Cur, unbuffered, g))} :
          Finish(s, "next_result")

\* await cursor.close() on an SSCursor
SFinish(g) ==
    /\ s_pc = "idle"
    /\ s_result.present
    /\ \E s \in {sscursor_close(Cur, g)} : Finish(s, "finish")

\* conn.close()
SClose ==
    /\ s_pc = "idle"
    /\ \E s \in {close(Cur)} : Finish(s, "close")

\* await conn.ensure_closed()
SEnsureClosed(reset) ==
    /\ s_pc = "idle"
    /\ \E s \in {ensure_closed(Cur, reset)} : Finish(s, "ensure_closed")

\* await conn.ping(reconnect); the server answers COM_PING with OK
SPing(reconnect, how, g) ==
    /\ s_pc = "idle"
    /\ sent < MaxCommands
    /\ how = "unreachable" \/ opened < MaxOpens
    /\ \E s \in {ping(Cur, reconnect, how, <<-1>>, g)} :
           Finish(s, IF reconnect THEN "ping" ELSE "ping_noreconnect")

\* the caller takes the outcome; the exchange is over
SReturn ==
    /\ s_pc = "done"
    /\ s_pc' = "idle" /\ s_call' = "none" /\ s_err' = "none"
    /\ wire' = <<>> /\ cmd' = NoCommand
    /\ staleAtSend' = 0 /\ resultAtSend' = NoResult
    /\ s_ret' = "none" /\ auth_packet' = "none"
    /\ UNCHANGED <<s_connected, s_writer, next_seq_id, inbox, garbled, s_result,
                   opened, sent, packet, local_infile, ssl_context, unix_socket,
                   secure, server_status>>
    /\ UNCHANGED poolSide

\* the transport is lost: what was received can still be read
SLoseLink ==
    /\ s_writer = "open"
    /\ s_writer' = "lost"
    /\ UNCHANGED <<s_connected, next_seq_id, wire, inbox, garbled, s_result, s_pc,
                   s_call, s_err, opened, sent, staleAtSend, resultAtSend, cmd, packet>>
    /\ UNCHANGED callVars
    /\ UNCHANGED poolSide

\* the server shuts down between two exchanges: it sends an ERR packet with
\* sequence id 0 and goes away
SShutdown ==
    /\ s_writer = "open"
    /\ s_pc = "idle"
    /\ inbox = <<>> /\ ~garbled
    /\ s_writer' = "lost"
    /\ inbox' = <<Srv("err", 0)>>
    /\ UNCHANGED <<s_connected, next_seq_id, wire, garbled, s_result, s_pc,
                   s_call, s_err, opened, sent, staleAtSend, resultAtSend, cmd, packet>>
    /\ UNCHANGED callVars
    /\ UNCHANGED poolSide

SessInit == PoolUnused /\ NewSession /\ CodecUnused

SessNext ==
    \/ \E how \in ConnectWays, g \in Guesses : SConnect(how, g)
    \/ \E call \in CommandCalls, g \in Guesses :
          \E len \in LensOf(call), shapes \in AnswersOf(call) :
              SExecute(call, len, shapes, g)
    \/ \E g \in Guesses : SReply(g)
    \/ \E g \in Guesses : SFetch(g)
    \/ \E u \in BOOLEAN, g \in Guesses : SNextResult(u, g)
    \/ \E g \in Guesses : SFinish(g)
    \/ SClose
    \/ \E reset \in BOOLEAN : SEnsureClosed(reset)
    \/ \E r \in BOOLEAN, how \in ConnectWays, g \in Guesses : SPing(r, how, g)
    \/ SReturn
    \/ SLoseLink
    \/ SShutdown

SessSpec == SessInit /\ [][SessNext]_vars

\* ---------------------------------------------------------------- ExchSpec
\* one Connection, made with local_infile on or off, its queries and cursors
\* against a server that answers with every kind of result
ExchInit ==
    /\ PoolUnused /\ CodecUnused
    /\ s_connected = FALSE /\ s_writer = "none"
    /\ next_seq_id = 0 /\ wire = <<>> /\ inbox = <<>> /\ garbled = FALSE
    /\ s_result = NoResult
    /\ s_pc = "idle" /\ s_call = "none" /\ s_err = "none"
    /\ opened = 0 /\ sent = 0 /\ staleAtSend = 0 /\ resultAtSend = NoResult
    /\ cmd = NoCommand /\ packet = <<>>
    /\ local_infile \in BOOLEAN /\ s_ret = "none"
    /\ PlainLink

ExchNext ==
    \/ \E g \in Guesses : SConnect("autocommit_off", g)
    \/ \E call \in {"query", "query_unbuffered"}, g \in Guesses :
          \E shapes \in ExchAnswers : SExecute(call, 5, shapes, g)
    \/ \E g \in Guesses : SReply(g)
    \/ \E g \in Guesses : SFetch(g)
    \/ \E u \in BOOLEAN, g \in Guesses : SNextResult(u, g)
    \/ \E g \in Guesses : SFinish(g)
    \/ SReturn

ExchSpec == ExchInit /\ [][ExchNext]_vars

\* --------------------------------------------- sequence ids (SessSpec)
\* a step in which read_packet is called on what the server sent: the reply
\* to a command, a row, the next result
ReadStep ==
    /\ s_pc' = "done"
    /\ \/ s_pc = "reply"
       \/ s_call' = "next_result"
       \/ s_call' = "fetch" /\ s_result.unbuffered_active
       \/ s_call' = "finish" /\ (s_result.unbuffered_active \/ s_result.has_next)

\* the frames the step took from the transport, and whether the i-th of them
\* carries the sequence id that is expected by then
Consumed == Len(inbox) - Len(inbox')

InStep(i) == inbox[i].seq = (next_seq_id + i - 1) % 256

\* a step in which _execute_command wrote its command
SendStep == s_pc = "idle" /\ s_pc' = "reply"

\* C11: next_seq_id is always in 0..255; the frames of a command carry the
\* sequence ids 0, 1, 2, ... whatever next_seq_id was, each written frame
\* advancing it by 1 modulo 256; each frame read_packet accepts advances it by
\* 1 modulo 256 (a frame it rejects is the last it takes and does not).
C11_SequenceIds ==
    [][ /\ next_seq_id \in 0..255 /\ next_seq_id' \in 0..255
        /\ SendStep =>
              /\ wire' # <<>> /\ wire'[1].seq = 0
              /\ \A i \in 1..Len(wire') : wire'[i].seq = (i - 1) % 256
              /\ next_seq_id' = Len(wire') % 256
        /\ ReadStep =>
              /\ \A i \in 1..(Consumed - 1) : InStep(i)
              /\ next_seq_id' =
                    (next_seq_id + (IF Consumed > 0 /\ ~InStep(Consumed)
                                    THEN Consumed - 1 ELSE Consumed)) % 256
      ]_vars

\* a large result set has been read whole: its frames took the sequence id
\* past 255 and on from 0
C11_Witness ==
    /\ s_pc = "done" /\ s_call = "query" /\ s_err = "none"
    /\ inbox = <<>> /\ Len(wire) = 1
    /\ next_seq_id + 256 = Len(wire) + 4 + ManyRows

\* C12: a frame whose sequence id is not the expected one makes read_packet
\* fail, with OperationalError when that id is 0 and InternalError otherwise,
\* and next_seq_id stays as it was.
C12_Mismatch ==
    [][ (ReadStep /\ inbox # <<>> /\ ~garbled /\ ~InStep(1)) =>
            /\ s_err' = IF inbox[1].seq = 0 THEN "OperationalError"
                        ELSE "InternalError"
            /\ next_seq_id' = next_seq_id
      ]_vars

\* the server shut down after the handshake and sent an ERR packet with
\* sequence id 0; the first command's reply was read and rejected
C12_Witness ==
    /\ s_pc = "done" /\ s_call = "commit" /\ s_err = "OperationalError"
    /\ sent = 1 /\ staleAtSend = 1 /\ s_writer = "lost" /\ garbled
    /\ next_seq_id = 1

\* ------------------------------------- results left unread (SessSpec)
\* C16: when _execute_command has written a command and the result it found
\* was unbuffered and still active, nothing of that result was left unread at
\* the moment of writing.
C16_DrainedAsStated ==
    (s_pc = "reply" /\ resultAtSend.present /\ resultAtSend.unbuffered_active)
        => staleAtSend = 0

\* C17: when _execute_command has written a command and the result it found
\* had has_next set, every result set that was to follow had been read by the
\* moment of writing.
C17_NextDrained ==
    (s_pc = "reply" /\ resultAtSend.present /\ resultAtSend.has_next)
        => staleAtSend = 0

\* a second command was written after the first one's further result sets had
\* been read by _execute_command
C17_Witness ==
    /\ s_pc = "reply" /\ sent = 2
    /\ resultAtSend.present /\ resultAtSend.has_next
    /\ staleAtSend = 0 /\ wire # <<>>

\* ------------------------------------------- the connected flag (SessSpec)
\* the calls that read what the server sent
ReadCalls == CommandCalls \cup {"fetch", "next_result", "finish"}

\* C18: after close() has returned, and after a read has failed with
\* OperationalError or InternalError, connected is false.
C18_ConnectedAsStated ==
    /\ (s_pc = "done" /\ s_call = "close") => ~s_connected
    /\ (s_pc = "done" /\ s_call \in ReadCalls
            /\ s_err \in {"OperationalError", "InternalError"}) => ~s_connected

\* C19: a command on a session without a transport (never connected, closed
\* by ensure_closed() or by close()) raises InterfaceError and nothing is
\* written.
C19_NotConnectedAsStated ==
    (s_pc = "done" /\ s_call \in CommandCalls /\ s_writer = "none")
        => (s_err = "InterfaceError" /\ wire = <<>>)

\* C20: ping(reconnect=True) on a session that is closed or has lost its
\* transport, with a server that can be reached, opens a new transport and
\* returns without error; ping(reconnect=False) on a closed session raises
\* Error.
C20_PingAsStated ==
    [][ /\ \A how \in {"autocommit_on", "autocommit_off"}, g \in Guesses :
              (SPing(TRUE, how, g) /\ (s_writer # "open" \/ ~s_connected))
                  => (s_err' = "none" /\ opened' = opened + 1 /\ s_writer' = "open")
        /\ \A how \in ConnectWays, g \in Guesses :
              (SPing(FALSE, how, g) /\ (s_writer = "none" \/ ~s_connected))
                  => s_err' = "Error"
      ]_vars

\* ------------------------------------------- notifications (Spec)
\* C29: every release of a session held in used schedules a notification of
\* the pool condition, and every connect that completes inside
\* fill_free_pool notifies it.
C29_NotifyAsStated ==
    [][ /\ \A t \in Tasks :
              (ReleaseStep(t) /\ conn[t] \in used) => wakeups' = wakeups + 1
        /\ (nextId' # nextId /\ waiters # <<>>) =>
              pc'[Head(waiters)] \in {"acq_woken", "wc_woken"}
      ]_vars

\* ------------------------------------------------- length-encoded integers
\* An integer in [0, 2^64) is its 8 bytes, least significant first.
\* Num: the integer of k bytes whose first byte is lo, whose k-th is hi and
\* whose bytes in between are fill.
Num(k, lo, hi, fill) ==
    [i \in 1..8 |-> IF i > k THEN 0
                    ELSE IF i = k THEN hi
                    ELSE IF i = 1 THEN lo ELSE fill]

\* the integers tried: around every limit of the encoder and of a C int
Inputs ==
    {Num(k, lo, hi, fill) : k \in 1..8, lo \in {0, 1, 250, 251, 252, 255},
                            hi \in {0, 1, 127, 128, 250, 251, 252, 255},
                            fill \in {0, 255}}

\* n < 2^(8k)
Below(n, k) == \A i \in (k + 1)..8 : n[i] = 0

\* _lenenc_int(int i).  The parameter is a C int: an argument of 2^31 or more
\* is refused with OverflowError when it is converted from a Python int
\* (conv = "checked") and keeps its low 32 bits when it is a C integer that
\* is cast (conv = "cast").
lenenc_int(n, conv) ==
    IF ~(Below(n, 4) /\ n[4] < 128) /\ conv = "checked"
    THEN [st |-> "OverflowError", bytes |-> <<>>]
    ELSE IF n[4] >= 128 THEN [st |-> "ValueError", bytes |-> <<>>]
    ELSE IF n[2] = 0 /\ n[3] = 0 /\ n[4] = 0 /\ n[1] < 251
    THEN [st |-> "ok", bytes |-> <<n[1]>>]
    ELSE IF n[3] = 0 /\ n[4] = 0
    THEN [st |-> "ok", bytes |-> <<252, n[1], n[2]>>]
    ELSE IF n[4] = 0
    THEN [st |-> "ok", bytes |-> <<253, n[1], n[2], n[3]>>]
    ELSE [st |-> "ok", bytes |-> <<254, n[1], n[2], n[3], n[4], 0, 0, 0, 0>>]

\* MysqlPacket.read_length_encoded_integer on a packet whose data is data,
\* read from its start: the value (None for a first byte 0xFB, and for 0xFF,
\* which no branch takes) and the position after it
read_length_encoded_integer(data) ==
    LET c == data[1]
        take(k) == [i \in 1..8 |-> IF i <= k THEN data[i + 1] ELSE 0]
    IN  IF c = 251 THEN [value |-> "None", position |-> 1]
        ELSE IF c < 251 THEN [value |-> Num(1, c, c, 0), position |-> 1]
        ELSE IF c = 252 THEN [value |-> take(2), position |-> 3]
        ELSE IF c = 253 THEN [value |-> take(3), position |-> 4]
        ELSE IF c = 254 THEN [value |-> take(8), position |-> 9]
        ELSE [value |-> "None", position |-> 1]

\* ------------------------------------------------------ packet predicates
\* a packet, as far as the predicates look at it: first byte and length
Packets == [first : {0, 1, 5, 251, 254, 255}, len : {1, 5, 7, 8, 9, 10, 40}]

\* MysqlPacket.is_eof_packet
is_eof_packetAnyLength(p) == p.first = 254

is_eof_packet(p) == p.first = 254 /\ p.len < 9

\* MysqlPacket.is_auth_switch_request
is_auth_switch_request(p) == p.first = 254

\* _request_authentication, the branch taken on the reply to the login
AuthBranch(p) ==
    IF is_auth_switch_request(p) THEN "auth_switch"
    ELSE IF p.first = 1 THEN "extra_auth_data"
    ELSE "return"

\* --------------------------------------------------------------- CodecSpec
\* an integer to encode and decode, or a packet to classify
CodecInit ==
    /\ PoolUnused /\ NewSession
    /\ c_bytes = <<>> /\ c_out = "none"
    /\ \/ c_pc = "in" /\ c_in \in Inputs
       \/ c_pc = "packet" /\ c_in \in Packets

\* _lenenc_int(n)
CEncode(conv) ==
    /\ c_pc = "in"
    /\ \E e \in {lenenc_int(c_in, conv)} :
          c_bytes' = e.bytes /\ c_out' = e.st
    /\ c_pc' = "encoded"
    /\ UNCHANGED <<c_in, cfgVars, poolVars, syncVars, taskVars, connVars, now, histVars>>
    /\ UNCHANGED <<s_connected, s_writer, next_seq_id, wire, inbox, garbled, s_result,
                   s_pc, s_call, s_err, opened, sent, staleAtSend, resultAtSend,
                   cmd, packet, callVars>>

\* MysqlPacket(c_bytes).read_length_encoded_integer()
CDecode ==
    /\ c_pc = "encoded" /\ c_out = "ok"
    /\ c_out' = read_length_encoded_integer(c_bytes)
    /\ c_pc' = "decoded"
    /\ UNCHANGED <<c_in, c_bytes, cfgVars, poolVars, syncVars, taskVars, connVars,
                   now, histVars>>
    /\ UNCHANGED <<s_connected, s_writer, next_seq_id, wire, inbox, garbled, s_result,
                   s_pc, s_call, s_err, opened, sent, staleAtSend, resultAtSend,
                   cmd, packet, callVars>>

\* the predicates of MysqlPacket on a packet, and what _request_authentication
\* does with it
CClassify ==
    /\ c_pc = "packet"
    /\ c_out' = [eof |-> is_eof_packet(c_in),
                 auth_switch |-> is_auth_switch_request(c_in),
                 branch |-> AuthBranch(c_in)]
    /\ c_pc' = "classified"
    /\ UNCHANGED <<c_in, c_bytes, cfgVars, poolVars, syncVars, taskVars, connVars,
                   now, histVars>>
    /\ UNCHANGED <<s_connected, s_writer, next_seq_id, wire, inbox, garbled, s_result,
                   s_pc, s_call, s_err, opened, sent, staleAtSend, resultAtSend,
                   cmd, packet, callVars>>

CodecNext ==
    \/ \E conv \in {"checked", "cast"} : CEncode(conv)
    \/ CDecode
    \/ CClassify

CodecSpec == CodecInit /\ [][CodecNext]_vars

\* C27: every n in [0, 2^64) is encoded, in the shortest form and never with
\* a leading 0xFB, and read_length_encoded_integer gives n back and stops
\* after the last byte of the encoding.
C27_RoundTripAsStated ==
    /\ c_pc = "encoded" =>
          /\ c_out = "ok"
          /\ c_bytes[1] # 251
          /\ Len(c_bytes) = (IF Below(c_in, 1) /\ c_in[1] < 251 THEN 1
                             ELSE IF Below(c_in, 2) THEN 3
                             ELSE IF Below(c_in, 3) THEN 4 ELSE 9)
          /\ Len(c_bytes) > 1 =>
                c_bytes[1] = (IF Len(c_bytes) = 3 THEN 252
                              ELSE IF Len(c_bytes) = 4 THEN 253 ELSE 254)
    /\ c_pc = "decoded" =>
          /\ c_out.value = c_in
          /\ c_out.position = Len(c_bytes)

\* C28 as stated: a packet that starts with 0xFE is an EOF packet exactly
\* when it is shorter than 9 bytes and an auth switch request exactly when it
\* is not; none is both.
C28_AsStated ==
    (c_pc = "classified" /\ c_in.first = 254) =>
        /\ c_out.eof <=> c_in.len < 9
        /\ c_out.auth_switch <=> c_in.len >= 9
        /\ ~(c_out.eof /\ c_out.auth_switch)

\* C28 amended: a packet is an EOF packet exactly when it starts with 0xFE
\* and is shorter than 9 bytes; it is an auth switch request exactly when it
\* starts with 0xFE, whatever its length, and _request_authentication treats
\* it as one: every EOF packet is both.
C28_Classes ==
    c_pc = "classified" =>
        /\ c_out.eof <=> (c_in.first = 254 /\ c_in.len < 9)
        /\ c_out.auth_switch <=> c_in.first = 254
        /\ c_out.branch = "auth_switch" <=> c_in.first = 254
        /\ c_out.eof => c_out.auth_switch

\* a short packet that starts with 0xFE has been classified: it is both
C28_Witness ==
    /\ c_pc = "classified" /\ c_in.first = 254 /\ c_in.len < 9
    /\ c_out.eof /\ c_out.auth_switch
\* ------------------------------------------------ LOCAL INFILE (ExchSpec)
\* a step in which the first packet of a result is read and is a LOCAL INFILE
\* request
LoadLocalRead ==
    /\ s_pc' = "done"
    /\ s_pc = "reply" \/ s_call' = "next_result"
    /\ inbox # <<>> /\ ~garbled /\ InStep(1)
    /\ inbox[1].kind \in LoadKinds

\* C23: when the server asks for a local file and local_infile is off, the
\* read of the result fails (RuntimeError) after that one packet: no frame is
\* written, nothing more is read, and the file is not touched.
C23_LocalInfileOff ==
    [][ (LoadLocalRead /\ ~local_infile) =>
            /\ s_err' = "RuntimeError"
            /\ wire' = wire
            /\ inbox' = Tail(inbox)
            /\ next_seq_id' = (next_seq_id + 1) % 256
      ]_vars

\* a query on a Connection made without local_infile was answered with a
\* LOCAL INFILE request and has failed
C23_Witness ==
    /\ s_pc = "done" /\ s_call = "query" /\ s_err = "RuntimeError"
    /\ ~local_infile /\ sent = 1
    /\ Len(wire) = 1 /\ inbox = <<>>

\* C24: when local_infile is on and the file can be read, its content is
\* written in frames of at most 16 KiB, then one empty frame, then the
\* server's OK is read and the query completes without error.
C24_FileSentAsStated ==
    [][ (LoadLocalRead /\ local_infile /\ inbox[1].kind = "load_local") =>
            /\ s_err' = "none"
            /\ Len(wire') > Len(wire) + 1
            /\ wire'[Len(wire')].len = 0
            /\ \A i \in (Len(wire) + 1)..(Len(wire') - 1) : wire'[i].len \in 1..16384
            /\ inbox' = <<>>
      ]_vars

\* C25: when local_infile is on and the file cannot be opened, the empty
\* frame is written all the same and one response is read before the error
\* is raised.
C25_TerminatorAsStated ==
    [][ (LoadLocalRead /\ local_infile /\ inbox[1].kind = "load_local_missing") =>
            /\ s_err' # "none"
            /\ Len(wire') = Len(wire) + 1
            /\ wire'[Len(wire')].len = 0
            /\ inbox' = Tail(inbox)
            /\ next_seq_id' = (next_seq_id + 3) % 256
      ]_vars

\* ------------------------------------------------- result sets (ExchSpec)
\* a step in which a result is read from its first packet, k packets of it
\* arriving with the sequence ids expected
ResultRead1(k) ==
    /\ s_pc' = "done"
    /\ s_pc = "reply" \/ s_call' = "next_result"
    /\ ~garbled /\ Len(inbox) >= k
    /\ \A i \in 1..k : InStep(i)

\* C26: when the packet after the column definitions of a result set is not
\* an EOF packet, reading the result fails with InternalError.
C26_NoEofAsStated ==
    [][ (/\ ResultRead1(3)
         /\ inbox[1].kind = "hdr" /\ inbox[2].kind = "field"
         /\ inbox[3].kind \notin EofKinds \cup {"err"}) =>
            s_err' = "InternalError"
      ]_vars

\* C22: after a buffered query that returned a result set without error, the
\* cursor's rowcount is the number of rows it holds, which is the number of
\* row packets the server sent, and description has field_count entries, as
\* many as the header announced.
C22_RowcountAndDescription ==
    [][ (/\ ResultRead1(1) /\ s_call' = "query" /\ s_err' = "none"
         /\ inbox[1].kind \in {"hdr", "hdr2"}) =>
            /\ s_ret'.affected_rows = s_ret'.rows
            /\ s_ret'.rows = Cardinality({i \in 1..Consumed : inbox[i].kind = "row"})
            /\ s_ret'.description = s_ret'.field_count
            /\ s_ret'.field_count = (IF inbox[1].kind = "hdr2" THEN 2 ELSE 1)
      ]_vars

\* a buffered query has returned a result set of two columns and two rows
C22_Witness ==
    /\ s_pc = "done" /\ s_call = "query" /\ s_err = "none"
    /\ s_ret.field_count = 2 /\ s_ret.description = 2
    /\ s_ret.rows = 2 /\ s_ret.affected_rows = 2
    /\ inbox = <<>>

\* ------------------------------------------------- streaming (ExchSpec)
\* a step of SSCursor.fetchone
FetchStep == s_pc = "idle" /\ s_pc' = "done" /\ s_call' = "fetch"

\* C30: a row read on an active unbuffered result takes exactly one packet:
\* an EOF clears unbuffered_active and the result's connection and gives no
\* row, any other packet gives one row and leaves the result active; a row
\* read on a result that is no longer active reads nothing and gives no row.
C30_OnePacketPerRead ==
    [][ FetchStep =>
          IF s_result.unbuffered_active
          THEN (inbox # <<>> /\ ~garbled /\ InStep(1) /\ inbox[1].kind # "err") =>
                  /\ inbox' = Tail(inbox)
                  /\ next_seq_id' = (next_seq_id + 1) % 256
                  /\ s_err' = "none"
                  /\ IF inbox[1].kind \in EofKinds
                     THEN /\ ~s_result'.unbuffered_active
                          /\ ~s_result'.connection
                          /\ s_ret' = "none"
                     ELSE /\ s_result'.unbuffered_active
                          /\ s_result'.connection
                          /\ s_ret' = "row"
          ELSE /\ inbox' = inbox /\ next_seq_id' = next_seq_id
               /\ s_result' = s_result
               /\ s_err' = "none" /\ s_ret' = "none"
      ]_vars

\* the one row of an unbuffered result was fetched, and the fetch after it
\* has read the EOF: the header had sequence id 1, the EOF 5
C30_Witness ==
    /\ s_pc = "done" /\ s_call = "fetch" /\ s_err = "none" /\ s_ret = "none"
    /\ s_result.present /\ ~s_result.unbuffered_active /\ ~s_result.connection
    /\ sent = 1 /\ next_seq_id = 6 /\ inbox = <<>>

\* a step of SSCursor.close
CloseStep == s_pc = "idle" /\ s_pc' = "done" /\ s_call' = "finish"

\* C21: when a streaming cursor is closed while its result is active and the
\* close raises nothing, every frame the server has sent was read (the rest
\* of the rows, their EOF, and the results after it), no result is left
\* active, and so the next command finds nothing unread before its answer.
C21_ClosedAsStated ==
    [][ (CloseStep /\ s_result.unbuffered_active /\ s_err' = "none") =>
            /\ inbox' = <<>>
            /\ ~s_result'.unbuffered_active
      ]_vars

\* ------------------------------------------------- the pool, again (Spec)
\* C37: every session in free has a transport (its _reader is not None); in
\* particular a session its holder closed with close() is not put in free.
C37_FreeHaveReaderAsStated == \A c \in Range(free) : reader[c] # "none"

\* a step in which task t runs fill_free_pool from its first line
SweepStep(t) ==
    \/ pc[t] \in {"acq_lock", "acq_woken", "ffp_lock"} /\ pc'[t] # pc[t]
    \/ /\ pc[t] = "idle" /\ lock = 0
       /\ \/ ~closing /\ (op'[t] = "acquire" \/ pc'[t] = "holding")
          \/ op'[t] = "fill_free_pool"

\* what the sweep is to keep: the reader is neither at EOF nor in error, and
\* the session is not older than pool_recycle
Keep(c) == ~ReaderDead(c) /\ ~OverAge(c)

\* C35: one call of fill_free_pool closes and removes exactly the sessions
\* of free whose reader is at EOF or in error or that are older than
\* pool_recycle, and leaves the others in free in the order they had (the
\* first of them is what _acquire then takes).
C35_SweepAsStated ==
    [][\A t \in Tasks : SweepStep(t) =>
          /\ \A c \in Range(free) :
                IF Keep(c) THEN reader'[c] = reader[c]
                ELSE reader'[c] = "none" /\ c \notin Range(free')
          /\ (IF pc'[t] = "holding" THEN <<conn'[t]>> \o free' ELSE free')
                = SelectSeq(free, Keep)
      ]_vars

\* C40: a connect of fill_free_pool counts in acquiring while it runs; when
\* it fails, acquiring is what it was before the attempt, free, used and
\* terminated are unchanged, the error reaches the caller of fill_free_pool,
\* and the condition's lock is free again.
C40_ConnectFailure ==
    [][\A t \in Tasks :
          /\ (pc[t] \notin {"conn_min", "conn_over"} /\ pc'[t] \in {"conn_over", "conn_min"})
                => acquiring' = acquiring + 1 /\ lock' = t
          /\ (pc[t] \in {"conn_min", "conn_over"} /\ pc'[t] = "ret") =>
                /\ acquiring' = acquiring - 1
                /\ UNCHANGED <<free, used, terminated, waiters>>
                /\ result'[t] = "OperationalError" /\ op'[t] = op[t]
                /\ lock = t /\ lock' = 0
      ]_vars

\* the connect of one acquire has failed while another acquire was waiting
\* for the lock, which is free now
C40_Witness ==
    \E t1, t2 \in Tasks :
        /\ pc[t1] = "ret" /\ op[t1] = "acquire" /\ result[t1] = "OperationalError"
        /\ pc[t2] = "acq_lock" /\ lock = 0
        /\ acquiring = 0 /\ free = <<>> /\ used = {}

\* C36: an acquirer that waits on the condition while the pool has room for
\* a session (one in used was released, whatever became of it) is eventually
\* resumed.
C36_BlockedAcquirerServed ==
    \A t \in Tasks :
        (pc[t] = "acq_wait" /\ Len(free) + Cardinality(used) + acquiring < maxsize)
            ~> (pc[t] # "acq_wait")

\* ---------------------------------------------------------------- ConnSpec
\* one Connection, made with or without an ssl context and a unix socket
\* path: its connect(), followed from the opening of the transport to the
\* handshake and the commands after it, and its queries against a server on
\* which a query may open a transaction
ConnInit ==
    /\ PoolUnused /\ CodecUnused
    /\ s_connected = FALSE /\ s_writer = "none"
    /\ next_seq_id = 0 /\ wire = <<>> /\ inbox = <<>> /\ garbled = FALSE
    /\ s_result = NoResult
    /\ s_pc = "idle" /\ s_call = "none" /\ s_err = "none"
    /\ opened = 0 /\ sent = 0 /\ staleAtSend = 0 /\ resultAtSend = NoResult
    /\ cmd = NoCommand /\ packet = <<>>
    /\ local_infile = FALSE /\ s_ret = "none"
    /\ ssl_context \in BOOLEAN /\ unix_socket \in BOOLEAN /\ NewLink

\* await conn.connect(), up to the open transport: nothing to do on a
\* connected session; a server that cannot be reached, or not within
\* connect_timeout, ends the call; else the handshake is awaited
CBegin(how) ==
    /\ s_pc = "idle"
    /\ how = "unreachable" \/ opened < MaxOpens
    /\ IF s_connected \/ how = "unreachable"
       THEN \E s \in {connect(Cur, how, "InternalError")} : Finish(s, "connect")
       ELSE /\ Put(OpenTransport(Cur, how))
            /\ s_pc' = "handshake" /\ s_call' = "connect" /\ s_err' = "none"

\* the rest of connect(): it goes on when the packets it reads are there
CLogin(how, g) ==
    /\ s_pc = "handshake"
    /\ \E s \in {Login(Cur, how, g)} : Finish(s, "connect")

\* the answers of a server on which a transaction may be open
TransShapes == {-1} \cup (0..MaxRows)

TransAnswers == {<<k>> : k \in TransShapes} \cup {<<Within(k)>> : k \in TransShapes}

ConnNext ==
    \/ \E how \in {"unreachable", "silent", "greeted"} : CBegin(how)
    \/ \E how \in LoginWays, g \in Guesses : CLogin(how, g)
    \/ \E call \in {"query", "query_unbuffered"}, g \in Guesses :
          \E shapes \in TransAnswers : SExecute(call, 5, shapes, g)
    \/ \E g \in Guesses : SReply(g)
    \/ \E g \in Guesses : SFetch(g)
    \/ \E reset \in BOOLEAN : SEnsureClosed(reset)
    \/ SReturn

ConnSpec == ConnInit /\ [][ConnNext]_vars

\* the event loop runs connect() on when what it awaits has come
ConnFairSpec == ConnSpec /\ WF_vars(\E how \in LoginWays, g \in Guesses : CLogin(how, g))

\* C38: whenever connect() raises, in opening the transport, in the handshake
\* or in the commands after it, the session ends with its transport dropped
\* and connected = false.
C38_FailedConnectAsStated ==
    (s_pc = "done" /\ s_call = "connect" /\ s_err # "none")
        => (s_writer = "none" /\ ~s_connected)

\* C33: connect() marks the session connected only if the last packet the
\* authentication exchange read is an OK packet: a step that makes the
\* session connected ends an exchange whose last packet was OK.
C33_ConnectedOnlyAfterOkAsStated ==
    [][ (~s_connected /\ s_connected') => auth_packet' \in OkKinds ]_vars

\* C32: with an ssl context the channel is marked secure by the TLS upgrade
\* in connect(), as it is over a unix socket: the connect() that succeeded
\* leaves _secure set.
C32_SecureAfterTlsAsStated ==
    (s_pc = "done" /\ s_call = "connect" /\ s_err = "none" /\ ssl_context) => secure

\* C34: connect() always comes to an end, also when the server accepted the
\* transport and then sends no greeting, or no answer to the login.
C34_ConnectEndsAsStated == (s_pc = "handshake") ~> (s_pc = "done")

\* a step in which a query, or a row read on an unbuffered result, read a
\* result set to the EOF packet that ends it
LastEofRead ==
    /\ s_pc' = "done" /\ s_err' = "none"
    /\ \/ s_pc = "reply" /\ s_call = "query" /\ inbox[1].kind = "hdr"
       \/ FetchStep /\ s_result.unbuffered_active
    /\ Consumed > 0 /\ inbox[Consumed].kind \in EofKinds

\* C39: once a query's result set has been read to its end, server_status is
\* what the EOF packet that ended it carried, so get_transaction_status()
\* tells of a transaction the query opened.
C39_StatusFromEofAsStated ==
    [][ LastEofRead => server_status' = StatusOf(inbox[Consumed].kind) ]_vars

\* C31: when an unbuffered query is answered by a result set, the
\* affected_rows the result, the session and the cursor report once
\* init_unbuffered_query is over is 2^64 - 1.
C31_UnbufferedCountAsStated ==
    [][ (/\ s_pc = "reply" /\ s_call = "query_unbuffered"
         /\ s_pc' = "done" /\ s_err' = "none"
         /\ inbox[1].kind \in {"hdr", "hdr2"}) =>
            AsBytes(s_ret'.affected_rows) = MaxU64
      ]_vars

====
